---------------------------- MODULE Spec2Model ----------------------------
(***************************************************************************)
(* Model of the risk & options scoring engine of trading-api:              *)
(*   - the trending aggregation pipeline (helpers/trending_options.rs,     *)
(*     routes/trending_options.rs),                                        *)
(*   - the high-open-interest contract selector                            *)
(*     (helpers/high_open_interest.rs, routes/high_open_interest.rs),      *)
(*   - the time-bounded cache (cache.rs),                                  *)
(*   - the read-through price fetch over that cache (services/yahoo.rs),  *)
(*   - the pure functions of the engine: cache keys, returns and metrics,  *)
(*     option scores, ticker discovery, the response summary.              *)
(*                                                                         *)
(* Conventions.  An Option<T> is a sequence of length at most one: <<>> is *)
(* None and <<x>> is Some(x).  Scores are exact fixed-point numbers:       *)
(* composite scores in hundredths, undervalued scores in thousandths,      *)
(* prices in cents.  Every upstream fetch is an await point, so it is one  *)
(* action whose outcome is chosen by the environment.                      *)
(***************************************************************************)
EXTENDS Integers, Sequences, FiniteSets, TLC

VARIABLES
    \* ---- one GET /trending-options request --------------------------
    query,              \* TrendingOptionsQuery: limit and the two thresholds
    hpc,                \* position of get_trending_options_handler
    analysis_limit,     \* the value of `limit * 2` handed to the analysis
    trending_tickers,   \* result of get_trending_tickers()
    task,               \* the per-ticker futures handed to join_all
    completed,          \* ticker indices in the order their futures finished
    collected,          \* `results` right after join_all(...).flatten()
    analysis,           \* return value of get_trending_options_analysis
    response,           \* `results` of TrendingOptionsResponse
    \* ---- one high-open-interest request ------------------------------
    hoi_entry,          \* entry point: "single", "batch_helper", "batch_handler"
    hoi_pc,             \* position inside the entry point
    raw_tickers,        \* `query.tickers` split at ',' (batch handler)
    hoi_tickers,        \* the tickers the loop runs over
    hoi_idx,            \* index of the ticker being processed
    parsed_contracts,   \* fetch_contracts: the parsed listing, before the sort
    best_contract,      \* fetch_contracts: the contract chosen, quote pending
    short_term_result,  \* get_high_open_interest_contracts: Option<Result>
    leap_result,        \* get_high_open_interest_contracts: Option<Result>
    hoi_results,        \* the (ticker, HighOpenInterestResult) entries so far
    hoi_response,       \* what the entry point returned
    \* ---- the time-bounded cache ---------------------------------------
    now,                \* Instant::now()
    storage,            \* MemoryCache.storage: key -> Option<CacheEntry>
    last_set,           \* per key, the latest set(key, data, ttl) and its time
    last_get,           \* the get(key) that has just returned, with its time
    last_sweep,         \* the cleanup_expired() that has just returned
    \* ---- one call of a pure function ---------------------------------
    fn_call,            \* Option: the function called and its arguments
    fn_ret,             \* Option: the value it returned
    \* ---- concurrent fetch_prices_for_symbol_cached calls -------------
    callers,            \* per caller: position and locals of its call
    write_seq,          \* number of cache.set calls completed so far
    \* ---- tasks sharing one MemoryCache ------------------------------
    tasks,              \* per task: its cache operation and position in it
    lock_log            \* the sets in the order they took the write lock

trendingVars == <<query, hpc, analysis_limit, trending_tickers, task,
                  completed, collected, analysis, response>>

hoiVars == <<hoi_entry, hoi_pc, raw_tickers, hoi_tickers, hoi_idx,
             parsed_contracts, best_contract, short_term_result, leap_result,
             hoi_results, hoi_response>>

cacheVars == <<now, storage, last_set, last_get, last_sweep>>

pureVars == <<fn_call, fn_ret>>

readVars == <<callers, write_seq>>

lockVars == <<tasks, lock_log>>

vars == <<trendingVars, hoiVars, cacheVars, pureVars, readVars, lockVars>>

\* What the actions of one component leave alone.
TrendingFrame == UNCHANGED <<hoiVars, cacheVars, pureVars, readVars, lockVars>>

HoiFrame ==
    UNCHANGED <<trendingVars, cacheVars, pureVars, readVars, lockVars>>

CacheFrame ==
    UNCHANGED <<trendingVars, hoiVars, pureVars, readVars, lockVars>>

PureFrame ==
    UNCHANGED <<trendingVars, hoiVars, cacheVars, readVars, lockVars>>

\* The cached fetch works on the cache and on its own locals.
ReadFrame == UNCHANGED <<trendingVars, hoiVars, pureVars, lockVars>>

\* Tasks on the cache's lock work on the cache and on their own locals.
LockFrame == UNCHANGED <<trendingVars, hoiVars, pureVars, readVars>>

-----------------------------------------------------------------------------
(* Generic helpers *)

None == <<>>

Some(x) == <<x>>

IsSome(o) == Len(o) = 1

Min(a, b) == IF a <= b THEN a ELSE b

Max(a, b) == IF a >= b THEN a ELSE b

RECURSIVE Pow2(_)
Pow2(n) == IF n = 0 THEN 1 ELSE 2 * Pow2(n - 1)

\* Vec::truncate(len) guarded by `if v.len() > len`
Truncate(s, len) == IF Len(s) > len THEN SubSeq(s, 1, len) ELSE s

\* Iterator::flatten over a Vec<Option<T>>
RECURSIVE Flatten(_)
Flatten(s) == IF s = <<>> THEN <<>> ELSE Head(s) \o Flatten(Tail(s))

-----------------------------------------------------------------------------
(* Bounds of the model *)

\* Largest number of tickers one discovery returns.
MaxTickers == 3

\* Width of usize in the model.  The build targets have 64 bits; the width
\* is scaled down so that `limit * 2` overflows inside the checked range.
UsizeBits == 3

UsizeModulus == Pow2(UsizeBits)

UsizeMax == UsizeModulus - 1

-----------------------------------------------------------------------------
(* Trending aggregation pipeline: environment *)

\* Symbols a discovery can return; get_trending_tickers de-duplicates, so the
\* discovered list holds pairwise distinct symbols.
TickerUniverse == <<"AAPL", "TSLA", "NVDA", "AMD", "PLTR">>

\* Composite scores (hundredths) compute_metrics_from_returns can produce.
Scores == {30, 50}

\* Number of quotes a price-history response can carry: too few for
\* fetch_prices_for_symbol (< 2), too few for the analysis (< 10), enough.
QuoteCounts == {1, 9, 10}

\* Latest close (cents) returned by latest_close.
SpotPrices == {10000}

\* Caller-supplied limits: small ones and the two ends of the overflow range.
Limits == {1, 2, UsizeModulus \div 2, UsizeMax}

\* Caller-supplied thresholds <<min_underlying_score, min_undervalued_score>>:
\* composite score in hundredths, undervalued score in thousandths; 0 is the
\* handler's default.
Thresholds == {<<0, 0>>, <<40, 500>>}

\* A contract as listed and not enriched (quote request failed).
ThinContract ==
    [symbol |-> "OPT_THIN", open_interest |-> Some(50), bid_price |-> None,
     ask_price |-> None, last_price |-> None, implied_volatility |-> None]

\* A contract enriched by get_option_prices: ask = bid = last = close price.
LiquidContract ==
    [symbol |-> "OPT_LIQUID", open_interest |-> Some(1500),
     bid_price |-> Some(250), ask_price |-> Some(250),
     last_price |-> Some(250), implied_volatility |-> Some(0)]

\* Results get_high_open_interest_contracts can hand to the pipeline.
TrendingHoiResults ==
    { [short_term |-> None, leap |-> None, error |-> None],
      [short_term |-> Some(LiquidContract), leap |-> Some(ThinContract),
       error |-> None] }

-----------------------------------------------------------------------------
(* Option scorer *)

UnwrapOr(o, d) == IF IsSome(o) THEN o[1] ELSE d

\* calculate_undervalued_indicators.  spread_pct = spread / mid_price is kept
\* as the pair (2 * spread, 2 * mid_price); mid_price <= 0 gives +infinity,
\* for which every `spread_pct < x` is false.
calculate_undervalued_indicators(contract, underlying_score) ==
    LET premium == UnwrapOr(contract.last_price, 0)
        bid == UnwrapOr(contract.bid_price, 0)
        ask == UnwrapOr(contract.ask_price, 0)
        open_interest == UnwrapOr(contract.open_interest, 0)
        mid2 == IF bid > 0 /\ ask > 0 THEN bid + ask ELSE 2 * premium
        spread == IF ask > 0 /\ bid > 0 THEN ask - bid ELSE 0
        \* spread_pct < num / 100
        PctBelow(num) == mid2 > 0 /\ 2 * spread * 100 < num * mid2
        liquidity_score == IF open_interest > 1000 THEN 10
                           ELSE IF open_interest > 500 THEN 7
                           ELSE IF open_interest > 100 THEN 4 ELSE 1
        spread_score == IF PctBelow(5) THEN 10
                        ELSE IF PctBelow(10) THEN 7
                        ELSE IF PctBelow(20) THEN 4 ELSE 1
    IN  [liquidity_score |-> liquidity_score,
         spread_score |-> spread_score,
         underlying_momentum |-> underlying_score,
         overall_undervalued_score |->
             Min(30 * liquidity_score + 30 * spread_score
                 + 4 * underlying_score, 1000),
         spread_is_infinite |-> ~(mid2 > 0),
         open_interest |-> open_interest,
         is_liquid |-> open_interest > 500,
         is_tight_spread |-> PctBelow(10)]

-----------------------------------------------------------------------------
(* Trending aggregation pipeline: helpers *)

\* analyze_ticker_options, given the selector's result.
analyze_ticker_options(symbol, underlying_metrics, hoi_result) ==
    LET composite_score == underlying_metrics.composite_score
        Entry(kind, contract) ==
            [contract_type |-> kind,
             contract |-> contract,
             undervalued_indicators |->
                 calculate_undervalued_indicators(contract, composite_score)]
        short == IF IsSome(hoi_result.short_term)
                 THEN <<Entry("short_term", hoi_result.short_term[1])>>
                 ELSE <<>>
        leap == IF IsSome(hoi_result.leap)
                THEN <<Entry("leap", hoi_result.leap[1])>>
                ELSE <<>>
    IN  Some([symbol |-> symbol,
              underlying_metrics |-> underlying_metrics,
              options_analysis |-> short \o leap,
              error |-> hoi_result.error])

\* The score both the sort and the filter read from a record.
CompositeOf(rec) == rec.underlying_metrics.composite_score

\* Position at which sort_by's stable descending order puts x into an
\* already sorted vector: behind every element that does not compare less.
RECURSIVE InsertAscending(_, _)
InsertAscending(sorted, x) ==
    IF sorted = <<>> THEN <<x>>
    ELSE IF CompositeOf(Head(sorted)) <= CompositeOf(x)
         THEN <<Head(sorted)>> \o InsertAscending(Tail(sorted), x)
         ELSE <<x>> \o sorted

RECURSIVE InsertDescending(_, _)
InsertDescending(sorted, x) ==
    IF sorted = <<>> THEN <<x>>
    ELSE IF CompositeOf(Head(sorted)) >= CompositeOf(x)
         THEN <<Head(sorted)>> \o InsertDescending(Tail(sorted), x)
         ELSE <<x>> \o sorted

RECURSIVE SortAscending(_)
SortAscending(s) ==
    IF s = <<>> THEN <<>>
    ELSE InsertAscending(SortAscending(SubSeq(s, 1, Len(s) - 1)), s[Len(s)])

RECURSIVE SortStable(_)
SortStable(s) ==
    IF s = <<>> THEN <<>>
    ELSE InsertDescending(SortStable(SubSeq(s, 1, Len(s) - 1)), s[Len(s)])

\* results.sort_by(|a, b| b_score.partial_cmp(&a_score)...): stable, descending.
SortByCompositeDesc(s) == SortStable(s)

\* fold(0.0, f64::max) over the contracts' overall undervalued scores.
RECURSIVE FoldMax(_, _)
FoldMax(acc, s) ==
    IF s = <<>> THEN acc
    ELSE FoldMax(Max(acc, Head(s).undervalued_indicators.overall_undervalued_score),
                 Tail(s))

MaxUndervaluedOf(rec) == FoldMax(0, rec.options_analysis)

\* The predicate of results.retain(...) in the handler.
PassesFilter(rec, q) ==
    /\ CompositeOf(rec) >= q.min_underlying_score
    /\ MaxUndervaluedOf(rec) >= q.min_undervalued_score

\* join_all: the outputs in the order of the futures handed in.
JoinAllByCompletion == [k \in 1..Len(completed) |-> task[completed[k]].out]

JoinAllOutputs == [i \in 1..Len(task) |-> task[i].out]

-----------------------------------------------------------------------------
(* Trending aggregation pipeline: the request *)

\* A future that starts at the contract selector.
TaskSkippingUnderlying ==
    [pc |-> "options", prices |-> None, spot_ok |-> FALSE,
     composite_score |-> 0, underlying_metrics |-> None, out |-> None]

\* A future created by the closure of get_trending_options_analysis, before
\* it is first polled.
NewTask ==
    [pc |-> "history", prices |-> None, spot_ok |-> FALSE,
     composite_score |-> 0, underlying_metrics |-> None, out |-> None]

TrendingIdle ==
    /\ hpc = "idle"
    /\ query = [limit |-> 0, min_underlying_score |-> 0,
                min_undervalued_score |-> 0]
    /\ analysis_limit = 0
    /\ trending_tickers = <<>>
    /\ task = <<>>
    /\ completed = <<>>
    /\ collected = <<>>
    /\ analysis = <<>>
    /\ response = <<>>

\* axum has extracted the query; the handler has not run yet.
TrendingStart ==
    /\ hpc = "start"
    /\ \E limit \in Limits, th \in Thresholds :
          query = [limit |-> limit, min_underlying_score |-> th[1],
                   min_undervalued_score |-> th[2]]
    /\ analysis_limit = 0
    /\ trending_tickers = <<>>
    /\ task = <<>>
    /\ completed = <<>>
    /\ collected = <<>>
    /\ analysis = <<>>
    /\ response = <<>>

\* get_trending_options_handler up to the first await: `limit * 2`.  An
\* overflowing product panics in a build with overflow checks and wraps in a
\* build without them.
HandlerStart ==
    /\ hpc = "start"
    /\ \/ /\ query.limit * 2 <= UsizeMax
          /\ analysis_limit' = query.limit * 2
          /\ hpc' = "discover"
       \/ /\ query.limit * 2 > UsizeMax
          /\ analysis_limit' = (query.limit * 2) % UsizeModulus
          /\ hpc' = "discover"
       \/ /\ query.limit * 2 > UsizeMax
          /\ analysis_limit' = analysis_limit
          /\ hpc' = "panicked"
    /\ UNCHANGED <<query, trending_tickers, task, completed, collected,
                   analysis, response>>
    /\ TrendingFrame

\* get_trending_tickers().await: the de-duplicated discovery; one future per
\* ticker is created and handed to join_all.
Discover ==
    /\ hpc = "discover"
    /\ \E n \in 0..MaxTickers :
          /\ trending_tickers' = SubSeq(TickerUniverse, 1, n)
          /\ task' = [i \in 1..n |-> NewTask]
    /\ hpc' = "fanout"
    /\ UNCHANGED <<query, analysis_limit, completed, collected, analysis,
                   response>>
    /\ TrendingFrame

\* fetch_prices_for_symbol: Err for a failed request (responded = FALSE) or
\* fewer than 2 quotes, else the closes; a price series is kept by its length.
fetch_prices_for_symbol(responded, quotes) ==
    IF ~responded \/ quotes < 2 THEN None ELSE Some(quotes)

\* analyze_underlying_metrics: `prices.len() < 10` returns None.
SufficientAtNine(prices) == prices[1] >= 9

SufficientData(prices) == ~(prices[1] < 10)

\* The future of ticker i returns: its output is final.  composite_score and
\* underlying_metrics are locals of the future; prices and spot_ok stay as
\* the record of what upstream answered.
Finish(i, prices, spot_ok, out) ==
    /\ task' = [task EXCEPT ![i].pc = "done", ![i].out = out,
                            ![i].prices = prices, ![i].spot_ok = spot_ok,
                            ![i].composite_score = 0,
                            ![i].underlying_metrics = None]
    /\ completed' = Append(completed, i)

\* analyze_underlying_metrics: fetch_prices_for_symbol(...).await, the length
\* check and the metrics.
FetchHistory(i) ==
    /\ hpc = "fanout"
    /\ task[i].pc = "history"
    /\ \E responded \in BOOLEAN, quotes \in QuoteCounts, score \in Scores :
          LET prices == fetch_prices_for_symbol(responded, quotes)
          IN  IF prices = None
              THEN Finish(i, None, FALSE, None)
              ELSE IF ~SufficientData(prices)
              THEN Finish(i, prices, FALSE, None)
              ELSE /\ task' = [task EXCEPT ![i].pc = "spot",
                                           ![i].prices = prices,
                                           ![i].composite_score = score]
                   /\ completed' = completed
    /\ UNCHANGED <<query, hpc, analysis_limit, trending_tickers, collected,
                   analysis, response>>
    /\ TrendingFrame

\* analyze_underlying_metrics: latest_close(...).await.
FetchSpot(i) ==
    /\ hpc = "fanout"
    /\ task[i].pc = "spot"
    /\ \/ Finish(i, task[i].prices, FALSE, None)
       \/ \E spot \in SpotPrices :
             /\ task' = [task EXCEPT
                           ![i].pc = "options",
                           ![i].spot_ok = TRUE,
                           ![i].underlying_metrics =
                               Some([symbol |-> trending_tickers[i],
                                     spot_price |-> spot,
                                     composite_score |->
                                         task[i].composite_score])]
             /\ completed' = completed
    /\ UNCHANGED <<query, hpc, analysis_limit, trending_tickers, collected,
                   analysis, response>>
    /\ TrendingFrame

\* analyze_ticker_options: get_high_open_interest_contracts(...).await and
\* the scoring of the contracts it returned.
SelectContracts(i) ==
    /\ hpc = "fanout"
    /\ task[i].pc = "options"
    /\ \E hoi_result \in TrendingHoiResults :
          Finish(i, task[i].prices, TRUE,
                 analyze_ticker_options(trending_tickers[i],
                                        task[i].underlying_metrics[1],
                                        hoi_result))
    /\ UNCHANGED <<query, hpc, analysis_limit, trending_tickers, collected,
                   analysis, response>>
    /\ TrendingFrame

\* get_trending_options_analysis after join_all: flatten, sort, limit.
get_trending_options_analysis(outputs, limit) ==
    Truncate(SortByCompositeDesc(Flatten(outputs)), limit)

\* get_trending_options_handler after the analysis: retain, then limit.
FilterAndLimit(results, q) ==
    Truncate(SelectSeq(results, LAMBDA rec : PassesFilter(rec, q)), q.limit)

\* join_all resolves once every future has returned; nothing awaits between
\* there and the handler's response.
JoinAndRespond ==
    /\ hpc = "fanout"
    /\ \A i \in 1..Len(task) : task[i].pc = "done"
    /\ collected' = Flatten(JoinAllOutputs)
    /\ analysis' = get_trending_options_analysis(JoinAllOutputs, analysis_limit)
    /\ response' = FilterAndLimit(analysis', query)
    /\ hpc' = "done"
    /\ UNCHANGED <<query, analysis_limit, trending_tickers, task, completed>>
    /\ TrendingFrame

-----------------------------------------------------------------------------
(* High-open-interest contract selector: environment *)

\* Largest number of tickers in one batch.
MaxBatch == 2

\* Largest number of contracts in one listing of the selection study.
MaxContracts == 3

\* Result<T, String>
Ok(x) == [ok |-> TRUE, val |-> x]

Err(e) == [ok |-> FALSE, err |-> e]

\* Tickers a caller passes to the batch helper.
BatchTickers == {"AAPL", "BAD_TICKER"}

\* Segments of the batch handler's comma-separated `tickers` parameter.
RawSegments == {"AAPL", " BAD_TICKER ", " "}

\* str::trim on the segments above.
Trim(seg) ==
    CASE seg = " BAD_TICKER " -> "BAD_TICKER"
      [] seg = " " -> ""
      [] OTHER -> seg

\* Sequences over S of length at most n.
SeqUpTo(S, n) == UNION {[1..k -> S] : k \in 0..n}

\* Symbols of the contracts of a listing, by position.
ContractSymbols == <<"OPT_1", "OPT_2", "OPT_3", "OPT_4", "OPT_5">>

\* One element of the `option_contracts` array: oi is the Option<u64> open
\* interest; an element that does not deserialize has parsable = FALSE.
RawContract(k, parsable, oi) ==
    [parsable |-> parsable,
     contract |-> [symbol |-> ContractSymbols[k], open_interest |-> oi,
                   close_price |-> None, bid_price |-> None,
                   ask_price |-> None, last_price |-> None,
                   implied_volatility |-> None]]

\* Open-interest values of the listings: missing, and the spec's 10/500/50.
OpenInterests == {None, Some(10), Some(50), Some(500)}

\* The listing of the batch study: open interest 10, 500, 50.
SpecListing ==
    <<RawContract(1, TRUE, Some(10)), RawContract(2, TRUE, Some(500)),
      RawContract(3, TRUE, Some(50))>>

BatchListings == {<<>>, SpecListing}

\* Every listing of at most MaxContracts elements.
AllListings ==
    { [k \in 1..Len(shape) |-> RawContract(k, shape[k][1], shape[k][2])] :
        shape \in SeqUpTo({<<FALSE, None>>} \cup ({TRUE} \X OpenInterests),
                          MaxContracts) }

\* Close prices (cents) a quote response can carry.
ClosePrices == {250}

\* Upstream answers to the contracts request, other than a listing.
ListingFailures ==
    {"no_credentials", "network_error", "status_422", "status_429",
     "status_500", "invalid_json", "no_contracts_array"}

-----------------------------------------------------------------------------
(* High-open-interest contract selector: helpers *)

\* fetch_contracts: the Err(String) of each failing answer.
ListingError(failure, ticker) ==
    CASE failure = "no_credentials" ->
             <<"ALPACA_API_KEY_ID/APCA_API_KEY_ID missing">>
      [] failure = "network_error" ->
             <<"Network error fetching contracts for", ticker>>
      [] failure = "status_422" ->
             IF ticker = "FB" \/ ticker = "META"
             THEN <<"Invalid ticker symbol", ticker,
                    "Meta's ticker changed from FB to META">>
             ELSE <<"Invalid ticker symbol", ticker>>
      [] failure = "status_429" -> <<"Rate limit hit for", ticker>>
      [] failure = "status_500" ->
             <<"Error fetching contracts for", ticker, 500>>
      [] failure = "invalid_json" -> <<"Error parsing contracts JSON">>
      [] OTHER -> <<"No contracts found for", ticker>>

\* The loop over `contracts`: the elements that deserialize, in order.
RECURSIVE ParseContracts(_)
ParseContracts(raw) ==
    IF raw = <<>> THEN <<>>
    ELSE (IF Head(raw).parsable THEN <<Head(raw).contract>> ELSE <<>>)
         \o ParseContracts(Tail(raw))

OpenInterestOf(contract) == UnwrapOr(contract.open_interest, 0)

\* parsed_contracts.sort_by(|a, b| b_oi.cmp(&a_oi)): stable, descending.
RECURSIVE InsertByOpenInterest(_, _)
InsertByOpenInterest(sorted, x) ==
    IF sorted = <<>> THEN <<x>>
    ELSE IF OpenInterestOf(Head(sorted)) >= OpenInterestOf(x)
         THEN <<Head(sorted)>> \o InsertByOpenInterest(Tail(sorted), x)
         ELSE <<x>> \o sorted

RECURSIVE SortByOpenInterestDesc(_)
SortByOpenInterestDesc(s) ==
    IF s = <<>> THEN <<>>
    ELSE InsertByOpenInterest(SortByOpenInterestDesc(SubSeq(s, 1, Len(s) - 1)),
                              s[Len(s)])

\* fetch_contracts: `parsed_contracts[0].clone()` after the sort.
FirstListed(parsed) == parsed[1]

BestContract(parsed) == SortByOpenInterestDesc(parsed)[1]

\* A merge that keeps the implied volatility of the listing.
EnrichKeepingVolatility(contract, close_price) ==
    [contract EXCEPT !.ask_price = Some(close_price),
                     !.bid_price = Some(close_price),
                     !.last_price = Some(close_price),
                     !.close_price = Some(close_price)]

\* fetch_contracts: merge of the quote into the chosen contract.
Enrich(contract, close_price) ==
    [contract EXCEPT !.ask_price = Some(close_price),
                     !.bid_price = Some(close_price),
                     !.last_price = Some(close_price),
                     !.implied_volatility = Some(0),
                     !.close_price = Some(close_price)]

\* get_high_open_interest_contracts: `match result { Ok(c) => c, Err(_) => None }`
SlotOf(result) == IF result.ok THEN result.val ELSE None

\* get_high_open_interest_contracts: the value returned.
ShortCircuitResult(short, leap) ==
    [short_term |-> SlotOf(short),
     leap |-> IF short.ok THEN SlotOf(leap) ELSE None,
     error |-> None]

HighOpenInterestResult(short, leap) ==
    [short_term |-> SlotOf(short), leap |-> SlotOf(leap), error |-> None]

\* results.push((ticker.clone(), result))
PushUnlessEmpty(results, ticker, result) ==
    IF result.short_term = None /\ result.leap = None THEN results
    ELSE Append(results, [ticker |-> ticker, result |-> result])

PushResult(results, ticker, result) ==
    Append(results, [ticker |-> ticker, result |-> result])

\* The batch handler's split / trim / filter of `query.tickers`.
RECURSIVE ParseTickerList(_)
ParseTickerList(raw) ==
    IF raw = <<>> THEN <<>>
    ELSE (IF Trim(Head(raw)) # "" THEN <<Trim(Head(raw))>> ELSE <<>>)
         \o ParseTickerList(Tail(raw))

-----------------------------------------------------------------------------
(* High-open-interest contract selector: the request *)

HoiIdle ==
    /\ hoi_entry = "idle"
    /\ hoi_pc = "idle"
    /\ raw_tickers = <<>>
    /\ hoi_tickers = <<>>
    /\ hoi_idx = 0
    /\ parsed_contracts = <<>>
    /\ best_contract = None
    /\ short_term_result = None
    /\ leap_result = None
    /\ hoi_results = <<>>
    /\ hoi_response = None

HoiLocalsFresh ==
    /\ parsed_contracts = <<>>
    /\ best_contract = None
    /\ short_term_result = None
    /\ leap_result = None
    /\ hoi_results = <<>>
    /\ hoi_response = None

\* A batch request: the helper is called with a slice of tickers, the
\* handler with the raw query parameter.
HoiBatchStart ==
    /\ HoiLocalsFresh
    /\ \/ /\ hoi_entry = "batch_helper"
          /\ raw_tickers = <<>>
          /\ hoi_tickers \in SeqUpTo(BatchTickers, MaxBatch)
          /\ hoi_idx = 0
          /\ hoi_pc = "call"
       \/ /\ hoi_entry = "batch_handler"
          /\ raw_tickers \in SeqUpTo(RawSegments, MaxBatch)
          /\ hoi_tickers = <<>>
          /\ hoi_idx = 0
          /\ hoi_pc = "parse"

\* GET /high-open-interest/{ticker}: one call of the selector.
HoiSingleStart ==
    /\ HoiLocalsFresh
    /\ hoi_entry = "single"
    /\ raw_tickers = <<>>
    /\ hoi_tickers \in {<<t>> : t \in BatchTickers}
    /\ hoi_idx = 1
    /\ hoi_pc = "short_listing"

\* get_high_open_interest_batch up to its first await: an empty slice is
\* answered at once with an empty vector.
EnterBatch ==
    /\ hoi_pc = "call"
    /\ IF hoi_tickers = <<>>
       THEN /\ hoi_pc' = "done"
            /\ hoi_response' = Some(Ok(hoi_results))
            /\ hoi_idx' = hoi_idx
       ELSE /\ hoi_pc' = "short_listing"
            /\ hoi_response' = hoi_response
            /\ hoi_idx' = 1
    /\ UNCHANGED <<hoi_entry, raw_tickers, hoi_tickers, parsed_contracts,
                   best_contract, short_term_result, leap_result, hoi_results>>
    /\ HoiFrame

\* get_high_open_interest_batch_handler up to its first await.
ParseTickers ==
    /\ hoi_pc = "parse"
    /\ hoi_tickers' = ParseTickerList(raw_tickers)
    /\ IF hoi_tickers' = <<>>
       THEN /\ hoi_pc' = "bad_request"
            /\ hoi_response' = Some(Err(<<400, "No tickers provided">>))
            /\ hoi_idx' = hoi_idx
       ELSE /\ hoi_pc' = "short_listing"
            /\ hoi_response' = hoi_response
            /\ hoi_idx' = 1
    /\ UNCHANGED <<hoi_entry, raw_tickers, parsed_contracts, best_contract,
                   short_term_result, leap_result, hoi_results>>
    /\ HoiFrame

\* The current window's fetch_contracts returned `result`.  After the LEAP
\* window the selector returns and the entry point records the result: the
\* helper then sleeps, the handler goes on (or answers), the single route
\* answers.
WindowReturns(result) ==
    IF hoi_pc \in {"short_listing", "short_quote"}
    THEN /\ short_term_result' = Some(result)
         /\ leap_result' = None
         /\ hoi_pc' = "leap_listing"
         /\ UNCHANGED <<hoi_idx, hoi_results, hoi_response>>
    ELSE LET value == HighOpenInterestResult(short_term_result[1], result)
             pushed == PushResult(hoi_results, hoi_tickers[hoi_idx], value)
             last == hoi_idx = Len(hoi_tickers)
         IN  /\ leap_result' = Some(result)
             /\ short_term_result' = short_term_result
             /\ hoi_results' = pushed
             /\ IF hoi_entry = "batch_helper"
                THEN /\ hoi_pc' = "sleep"
                     /\ UNCHANGED <<hoi_idx, hoi_response>>
                ELSE IF last
                THEN /\ hoi_pc' = "done"
                     /\ hoi_idx' = hoi_idx
                     /\ hoi_response' = Some(Ok(pushed))
                ELSE /\ hoi_pc' = "short_listing"
                     /\ hoi_idx' = hoi_idx + 1
                     /\ hoi_response' = hoi_response

\* fetch_contracts up to the choice of the best contract: the contracts
\* request, its status, its body, the parse and the sort.
ListContracts(listings) ==
    /\ hoi_pc \in {"short_listing", "leap_listing"}
    /\ \/ \E failure \in ListingFailures :
             /\ WindowReturns(Err(ListingError(failure, hoi_tickers[hoi_idx])))
             /\ UNCHANGED <<parsed_contracts, best_contract>>
       \/ \E raw \in listings :
             LET parsed == ParseContracts(raw)
             IN  /\ parsed_contracts' = parsed
                 /\ IF raw = <<>> \/ parsed = <<>>
                    THEN /\ WindowReturns(Ok(None))
                         /\ best_contract' = None
                    ELSE /\ best_contract' = Some(BestContract(parsed))
                         /\ hoi_pc' = IF hoi_pc = "short_listing"
                                      THEN "short_quote" ELSE "leap_quote"
                         /\ UNCHANGED <<hoi_idx, short_term_result,
                                        leap_result, hoi_results,
                                        hoi_response>>
    /\ UNCHANGED <<hoi_entry, raw_tickers, hoi_tickers>>
    /\ HoiFrame

\* fetch_contracts: get_option_prices(&best_contract).await and the merge.
QuotePrices ==
    /\ hoi_pc \in {"short_quote", "leap_quote"}
    /\ \/ WindowReturns(Ok(best_contract))
       \/ \E close_price \in ClosePrices :
             WindowReturns(Ok(Some(Enrich(best_contract[1], close_price))))
    /\ best_contract' = None
    /\ UNCHANGED <<hoi_entry, raw_tickers, hoi_tickers, parsed_contracts>>
    /\ HoiFrame

\* get_high_open_interest_contracts_batch: the sleep after each ticker.
Sleep ==
    /\ hoi_pc = "sleep"
    /\ IF hoi_idx = Len(hoi_tickers)
       THEN /\ hoi_pc' = "done"
            /\ hoi_idx' = hoi_idx
            /\ hoi_response' = Some(Ok(hoi_results))
       ELSE /\ hoi_pc' = "short_listing"
            /\ hoi_idx' = hoi_idx + 1
            /\ hoi_response' = hoi_response
    /\ UNCHANGED <<hoi_entry, raw_tickers, hoi_tickers, parsed_contracts,
                   best_contract, short_term_result, leap_result,
                   hoi_results>>
    /\ HoiFrame

-----------------------------------------------------------------------------
(* Time-bounded cache *)

\* Last instant of the clock.
MaxTime == 3

\* Longest time-to-live a caller passes.
MaxTtl == 2

CacheKeys == {"k1", "k2"}

CacheValues == {"v1", "v2"}

Ttls == 0..MaxTtl

\* An entry whose time-to-live is ignored.
EntryExpiringAtOnce(data, ttl, t) == [data |-> data, expires_at |-> t]

\* CacheEntry::new(data, ttl) at instant t.
CacheEntryNew(data, ttl, t) == [data |-> data, expires_at |-> t + ttl]

\* An entry that never expires.
NeverExpired(entry, t) == FALSE

\* An entry that expires one instant late.
ExpiredOneLate(entry, t) == t > entry.expires_at + 1

\* CacheEntry::is_expired at instant t.
is_expired(entry, t) == t > entry.expires_at

\* MemoryCache::get: the value returned.
CacheLookup(key) ==
    IF storage[key] # None /\ ~is_expired(storage[key][1], now)
    THEN Some(storage[key][1].data)
    ELSE None

\* MemoryCache::size
CacheSize == Cardinality({k \in CacheKeys : storage[k] # None})

\* A sweep that drops every entry.
RetainNothing(store, t) == [k \in DOMAIN store |-> None]

\* storage.retain(|_, entry| !entry.is_expired()) at instant t.
Retain(store, t) ==
    [k \in DOMAIN store |->
        IF store[k] # None /\ is_expired(store[k][1], t) THEN None ELSE store[k]]

CacheIdle ==
    /\ now = 0
    /\ storage = [k \in CacheKeys |-> None]
    /\ last_set = [k \in CacheKeys |-> None]
    /\ last_get = None
    /\ last_sweep = None

\* MemoryCache::new()
CacheNew == CacheIdle

\* MemoryCache::get
CacheGet(key) ==
    /\ last_get' = Some([key |-> key, result |-> CacheLookup(key), at |-> now])
    /\ last_sweep' = None
    /\ UNCHANGED <<now, storage, last_set>>
    /\ CacheFrame

\* MemoryCache::set
CacheSet(key, data, ttl) ==
    /\ storage' = [storage EXCEPT ![key] = Some(CacheEntryNew(data, ttl, now))]
    /\ last_set' = [last_set EXCEPT
                      ![key] = Some([data |-> data, ttl |-> ttl, at |-> now])]
    /\ last_get' = None
    /\ last_sweep' = None
    /\ now' = now
    /\ CacheFrame

\* MemoryCache::cleanup_expired
CleanupExpired ==
    /\ storage' = Retain(storage, now)
    /\ last_get' = None
    /\ last_sweep' = Some([before |-> storage, at |-> now])
    /\ UNCHANGED <<now, last_set>>
    /\ CacheFrame

\* MemoryCache::clear
CacheClear ==
    /\ storage' = [k \in CacheKeys |-> None]
    /\ last_set' = [k \in CacheKeys |-> None]
    /\ last_get' = None
    /\ last_sweep' = None
    /\ now' = now
    /\ CacheFrame

\* Time passes.
Tick ==
    /\ now < MaxTime
    /\ now' = now + 1
    /\ last_get' = None
    /\ last_sweep' = None
    /\ UNCHANGED <<storage, last_set>>
    /\ CacheFrame

-----------------------------------------------------------------------------
(* Pure functions: one call *)

\* No call of a pure function is being looked at.
PureIdle ==
    /\ fn_call = None
    /\ fn_ret = None

\* A call has been made with the arguments `args` and has not returned.
Called(fn, args) ==
    /\ fn_call = Some([fn |-> fn, args |-> args])
    /\ fn_ret = None

\* The call returns `value`.
Return(fn, value) ==
    /\ fn_call # None
    /\ fn_call[1].fn = fn
    /\ fn_ret = None
    /\ fn_ret' = Some(value)
    /\ fn_call' = fn_call
    /\ PureFrame

-----------------------------------------------------------------------------
(* Cache keys *)

\* Longest parameter value of a key.
MaxValueLen == 3

\* A string is the sequence of its characters.
KeyAlphabet == {"a", ":", "="}

KeyPrefixes == {<<"p">>}

ParamNames == {<<"a">>, <<"b">>}

ParamValues == UNION {[1..n -> KeyAlphabet] : n \in 0..MaxValueLen}

KeyParams == ParamNames \X ParamValues

\* No parameter, one, or two as fetch_prices_for_symbol_cached passes.
KeyParamLists ==
    {<<>>} \cup {<<x>> : x \in KeyParams} \cup (KeyParams \X KeyParams)

\* Parameters ordered by name then value, as a key builder that sorts its
\* parameters would emit them.
CharRank(c) == IF c = "=" THEN 1 ELSE IF c = ":" THEN 2 ELSE 3

RECURSIVE StrLess(_, _)
StrLess(a, b) ==
    IF b = <<>> THEN FALSE
    ELSE IF a = <<>> THEN TRUE
    ELSE IF Head(a) # Head(b) THEN CharRank(Head(a)) < CharRank(Head(b))
    ELSE StrLess(Tail(a), Tail(b))

ParamLess(x, y) ==
    \/ x[1] # y[1] /\ x[1] = <<"a">>
    \/ x[1] = y[1] /\ StrLess(x[2], y[2])

RECURSIVE InsertParam(_, _)
InsertParam(sorted, x) ==
    IF sorted = <<>> THEN <<x>>
    ELSE IF ParamLess(x, Head(sorted)) THEN <<x>> \o sorted
    ELSE <<Head(sorted)>> \o InsertParam(Tail(sorted), x)

RECURSIVE SortParams(_)
SortParams(params) ==
    IF params = <<>> THEN <<>>
    ELSE InsertParam(SortParams(Tail(params)), Head(params))

RECURSIVE KeyOfParams(_, _)
KeyOfParams(key, params) ==
    IF params = <<>> THEN key
    ELSE KeyOfParams(key \o <<":">> \o params[1][1] \o <<"=">> \o params[1][2],
                     Tail(params))

cache_key_sorted(prefix, params) == KeyOfParams(prefix, SortParams(params))

\* cache_key: push ':' k '=' v for each (k, v) of params, in order.
cache_key(prefix, params) == KeyOfParams(prefix, params)

CacheKeyCalled ==
    \E prefix \in KeyPrefixes, params \in KeyParamLists :
        Called("cache_key", [prefix |-> prefix, params |-> params])

CacheKeyReturns ==
    Return("cache_key", cache_key(fn_call[1].args.prefix, fn_call[1].args.params))

-----------------------------------------------------------------------------
(* Read-through price fetch: fetch_prices_for_symbol_cached *)

\* Calls made in all, and number of times the clock advances.
MaxCalls == 2

MaxElapses == 2

\* Tasks calling fetch_prices_for_symbol_cached concurrently.
Callers == {1, 2}

PriceSymbols == {"AAPL"}

\* Range labels: a short window, a middle one, a long one, and a label the
\* two matches do not list.
RangeLabels == {"3mo", "1y", "5y", "max"}

\* Lookback window of fetch_prices_for_symbol, in days.
lookback_days(range_label) ==
    CASE range_label = "1mo" -> 30
      [] range_label = "3mo" -> 90
      [] range_label = "6mo" -> 180
      [] range_label = "1y" -> 365
      [] range_label = "2y" -> 730
      [] range_label = "5y" -> 365 * 5
      [] OTHER -> 30

TtlShort == 300

TtlMedium == 900

TtlLong == 1800

\* cache_ttl of fetch_prices_for_symbol_cached, in seconds.
cache_ttl(range_label) ==
    IF range_label \in {"1mo", "3mo"} THEN TtlShort
    ELSE IF range_label \in {"6mo", "1y"} THEN TtlMedium
    ELSE TtlLong

\* The key of a (symbol, range_label) pair; a string is kept as one token.
PriceKey(symbol, range_label) ==
    cache_key(<<"yahoo_prices">>,
              << <<(<<"symbol">>), (<<symbol>>)>>,
                 <<(<<"range">>), (<<range_label>>)>> >>)

PriceKeys == {PriceKey(sym, r) : sym \in PriceSymbols, r \in RangeLabels}

\* What fetch_prices_for_symbol can answer: an error, or the closes (cents)
\* as upstream has them at the time of the request.
UpstreamAnswers ==
    {Err("not enough quotes"), Ok(<<10000, 10100>>), Ok(<<10000, 10200>>)}

\* HashMap::insert replaces the entry of the key; the variant keeps an entry
\* already present.
InsertIfAbsent(map, key, entry) ==
    IF map[key] # None THEN map ELSE [map EXCEPT ![key] = Some(entry)]

HashMapInsert(map, key, entry) == [map EXCEPT ![key] = Some(entry)]

\* A caller between two calls.
IdleCaller ==
    [pc |-> "idle", calls |-> 0, symbol |-> "", range_label |-> "",
     cache_key |-> <<>>, prices |-> None, cache_ttl |-> None, ret |-> None,
     get_at |-> None, seen |-> None, fetched |-> FALSE, set_seq |-> None,
     via |-> "", de |-> "", answer |-> None]

ReadIdle ==
    /\ callers = [c \in Callers |-> IdleCaller]
    /\ write_seq = 0

\* The cache of AppState, empty, holding price keys.
PriceCacheNew ==
    /\ now = 0
    /\ storage = [k \in PriceKeys |-> None]
    /\ last_set = [k \in PriceKeys |-> None]
    /\ last_get = None
    /\ last_sweep = None

RECURSIVE SumCalls(_)
SumCalls(S) ==
    IF S = {} THEN 0
    ELSE LET c == CHOOSE x \in S : TRUE
         IN  callers[c].calls + SumCalls(S \ {c})

CallsMade == SumCalls(Callers)

\* fetch_prices_for_symbol_cached is called: the key is built.
EnterCached(c) ==
    /\ callers[c].pc \in {"idle", "done"}
    /\ CallsMade < MaxCalls
    /\ \E symbol \in PriceSymbols, range_label \in RangeLabels :
          callers' = [callers EXCEPT ![c] =
              [IdleCaller EXCEPT !.pc = "get", !.via = "yahoo",
                                 !.calls = callers[c].calls + 1,
                                 !.symbol = symbol,
                                 !.range_label = range_label,
                                 !.cache_key = PriceKey(symbol, range_label)]]
    /\ UNCHANGED <<cacheVars, write_seq>>
    /\ ReadFrame

\* A request handler of the running application calls
\* fetch_prices_for_symbol_cached; requests arrive for ever.
AppRequest(c) ==
    /\ callers[c].pc \in {"idle", "done"}
    /\ \E symbol \in PriceSymbols, range_label \in RangeLabels :
          callers' = [callers EXCEPT ![c] =
              [IdleCaller EXCEPT !.pc = "get", !.via = "yahoo",
                                 !.symbol = symbol,
                                 !.range_label = range_label,
                                 !.cache_key = PriceKey(symbol, range_label)]]
    /\ UNCHANGED <<cacheVars, write_seq>>
    /\ ReadFrame

\* cache.get(&cache_key).await: a hit returns the cached series, a miss goes
\* on to the upstream fetch.  `seen` and `get_at` record the latest set of
\* the key and the instant of the read.
GetCached(c) ==
    /\ callers[c].pc = "get"
    /\ LET me == callers[c]
           cached == CacheLookup(me.cache_key)
           noted == [me EXCEPT !.get_at = Some(now),
                               !.seen = last_set[me.cache_key]]
       IN  callers' = [callers EXCEPT ![c] =
               IF cached # None
               THEN [noted EXCEPT !.pc = "done", !.ret = Some(Ok(cached[1]))]
               ELSE [noted EXCEPT !.pc = "fetch"]]
    /\ UNCHANGED <<cacheVars, write_seq>>
    /\ ReadFrame

\* fetch_prices_for_symbol(...).await?: an error is returned to the caller
\* and nothing is cached.
FetchUpstream(c) ==
    /\ callers[c].pc = "fetch"
    /\ \E answer \in UpstreamAnswers :
          callers' = [callers EXCEPT ![c] =
              IF answer.ok
              THEN [@ EXCEPT !.pc = "set", !.fetched = TRUE,
                             !.answer = Some(answer),
                             !.prices = Some(answer.val),
                             !.cache_ttl =
                                 Some(cache_ttl(callers[c].range_label))]
              ELSE [@ EXCEPT !.pc = "done", !.fetched = TRUE,
                             !.answer = Some(answer),
                             !.ret = Some(answer)]]
    /\ UNCHANGED <<cacheVars, write_seq>>
    /\ ReadFrame

\* cache.set(cache_key, cache_data, cache_ttl).await; Ok(prices).
SetCached(c) ==
    /\ callers[c].pc = "set"
    /\ LET me == callers[c]
           entry == CacheEntryNew(me.prices[1], me.cache_ttl[1], now)
       IN  /\ storage' = HashMapInsert(storage, me.cache_key, entry)
           /\ last_set' = [last_set EXCEPT ![me.cache_key] =
                  Some([data |-> me.prices[1], ttl |-> me.cache_ttl[1],
                        at |-> now])]
           /\ write_seq' = write_seq + 1
           /\ callers' = [callers EXCEPT ![c] =
                  [me EXCEPT !.pc = "done", !.ret = Some(Ok(me.prices[1])),
                             !.set_seq = Some(write_seq + 1)]]
    /\ UNCHANGED <<now, last_get, last_sweep>>
    /\ ReadFrame

\* Time passes; the clock is read at multiples of the shortest TTL.
Elapse ==
    /\ now < MaxElapses * TtlShort
    /\ now' = now + TtlShort
    /\ UNCHANGED <<storage, last_set, last_get, last_sweep, callers,
                   write_seq>>
    /\ ReadFrame

-----------------------------------------------------------------------------
(* Read-through HTTP fetch: OptimizedApiClient::get_cached *)

\* The types T a caller asks for: any array of numbers, or an array of
\* unsigned numbers.
TargetTypes == {"numbers", "naturals"}

\* Ways the request fails before a JSON value is in hand.
ClientFailures == {"send_error", "status_429", "status_500", "invalid_json"}

\* What the HTTP request can come back with: a failure, or a JSON body.
ClientAnswers ==
    { [kind |-> f, body |-> <<>>] : f \in ClientFailures }
    \cup
    { [kind |-> "body", body |-> b] : b \in {<<10000, 10100>>, <<-1>>} }

\* serde_json::from_value::<T>(value) succeeds.
Deserializes(de, value) ==
    de = "numbers" \/ \A i \in 1..Len(value) : value[i] >= 0

\* A deserializer that accepts every value.
FromValueLenient(de, value) == Ok(value)

\* serde_json::from_value::<T>(json_value.clone()).map_err(...)
FromValue(de, value) ==
    IF Deserializes(de, value) THEN Ok(value)
    ELSE Err("Failed to deserialize response")

\* get_cached from the request to the JSON value: the Err of each failure,
\* else the body.
ClientJson(answer) ==
    CASE answer.kind = "send_error" -> Err("HTTP request failed")
      [] answer.kind = "status_429" -> Err("Rate limit exceeded")
      [] answer.kind = "status_500" -> Err("HTTP error: 500")
      [] answer.kind = "invalid_json" -> Err("Failed to parse JSON response")
      [] OTHER -> Ok(answer.body)

\* Keys the client's callers use: keys the price fetch uses as well.
ClientKeys == {PriceKey(sym, r) : sym \in PriceSymbols, r \in {"3mo", "1y"}}

\* get_cached is called: the key is built from the caller's prefix and
\* parameters, the time-to-live is the caller's.
ClientEnter(c) ==
    /\ callers[c].pc \in {"idle", "done"}
    /\ CallsMade < MaxCalls
    /\ \E key \in ClientKeys, de \in TargetTypes, ttl \in {TtlShort} :
          callers' = [callers EXCEPT ![c] =
              [IdleCaller EXCEPT !.pc = "c_get", !.via = "client",
                                 !.calls = callers[c].calls + 1,
                                 !.cache_key = key, !.de = de,
                                 !.cache_ttl = Some(ttl)]]
    /\ UNCHANGED <<cacheVars, write_seq>>
    /\ ReadFrame

\* self.cache.get(&cache_key).await: a cached value that deserializes into
\* T is returned; a miss, or a value that does not, goes on to the request.
ClientGet(c) ==
    /\ callers[c].pc = "c_get"
    /\ LET me == callers[c]
           cached == CacheLookup(me.cache_key)
           noted == [me EXCEPT !.get_at = Some(now),
                               !.seen = last_set[me.cache_key]]
       IN  callers' = [callers EXCEPT ![c] =
               IF cached # None /\ FromValue(me.de, cached[1]).ok
               THEN [noted EXCEPT !.pc = "done",
                                  !.ret = Some(FromValue(me.de, cached[1]))]
               ELSE [noted EXCEPT !.pc = "c_fetch"]]
    /\ UNCHANGED <<cacheVars, write_seq>>
    /\ ReadFrame

\* The request, the status check, response.json() and from_value: each `?`
\* and each early return hands the error to the caller.
ClientFetch(c) ==
    /\ callers[c].pc = "c_fetch"
    /\ \E answer \in ClientAnswers :
          LET json_value == ClientJson(answer)
              result == IF json_value.ok
                        THEN FromValue(callers[c].de, json_value.val)
                        ELSE json_value
          IN  callers' = [callers EXCEPT ![c] =
                  IF result.ok
                  THEN [@ EXCEPT !.pc = "c_set", !.fetched = TRUE,
                                 !.answer = Some(answer),
                                 !.prices = Some(json_value.val)]
                  ELSE [@ EXCEPT !.pc = "done", !.fetched = TRUE,
                                 !.answer = Some(answer),
                                 !.ret = Some(result)]]
    /\ UNCHANGED <<cacheVars, write_seq>>
    /\ ReadFrame

\* self.cache.set(cache_key, json_value, cache_ttl).await; Ok(result)
ClientSet(c) ==
    /\ callers[c].pc = "c_set"
    /\ LET me == callers[c]
           entry == CacheEntryNew(me.prices[1], me.cache_ttl[1], now)
       IN  /\ storage' = HashMapInsert(storage, me.cache_key, entry)
           /\ last_set' = [last_set EXCEPT ![me.cache_key] =
                  Some([data |-> me.prices[1], ttl |-> me.cache_ttl[1],
                        at |-> now])]
           /\ write_seq' = write_seq + 1
           /\ callers' = [callers EXCEPT ![c] =
                  [me EXCEPT !.pc = "done", !.ret = Some(Ok(me.prices[1])),
                             !.set_seq = Some(write_seq + 1)]]
    /\ UNCHANGED <<now, last_get, last_sweep>>
    /\ ReadFrame

-----------------------------------------------------------------------------
(* Tasks sharing one MemoryCache: the RwLock around storage *)

\* Cache operations started in all.
MaxLockCalls == 3

\* Tasks holding a clone of the cache.
Tasks == {1, 2}

\* The operations a task can start: get(key) and set(key, data, ttl), every
\* set with the longest time-to-live, which the clock outruns.
LockOps ==
    { [op |-> "get", key |-> k, data |-> "", ttl |-> 0] : k \in CacheKeys }
    \cup
    { [op |-> "set", key |-> k, data |-> v, ttl |-> MaxTtl] :
        k \in CacheKeys, v \in CacheValues }

IdleTask ==
    [pc |-> "idle", calls |-> 0, op |-> "", key |-> "", data |-> "",
     ttl |-> 0, ret |-> None, slot |-> 0]

LockIdle ==
    /\ tasks = [t \in Tasks |-> IdleTask]
    /\ lock_log = <<>>

RECURSIVE SumTaskCalls(_)
SumTaskCalls(S) ==
    IF S = {} THEN 0
    ELSE LET t == CHOOSE x \in S : TRUE
         IN  tasks[t].calls + SumTaskCalls(S \ {t})

\* Tasks inside get, holding the read lock, and inside set, holding the
\* write lock.
Readers == {t \in Tasks : tasks[t].pc = "reading"}

Writers == {t \in Tasks : tasks[t].pc = "writing"}

\* A write lock handed out whatever the other tasks hold.
WriteLockAlways(readers, writers) == TRUE

\* RwLock::write().await returns once no task holds the lock.
WriteLockFree(readers, writers) == readers = {} /\ writers = {}

\* RwLock::read().await returns once no task holds the write lock.
ReadLockFree(writers) == writers = {}

\* A task calls get or set; the call waits for the lock.
TaskCall(t) ==
    /\ tasks[t].pc \in {"idle", "done"}
    /\ SumTaskCalls(Tasks) < MaxLockCalls
    /\ \E o \in LockOps :
          tasks' = [tasks EXCEPT ![t] =
              [pc |-> "waiting", calls |-> tasks[t].calls + 1, op |-> o.op,
               key |-> o.key, data |-> o.data, ttl |-> o.ttl, ret |-> None,
               slot |-> 0]]
    /\ UNCHANGED <<cacheVars, lock_log>>
    /\ LockFrame

\* MemoryCache::get: `self.storage.read().await`
AcquireRead(t) ==
    /\ tasks[t].pc = "waiting"
    /\ tasks[t].op = "get"
    /\ ReadLockFree(Writers)
    /\ tasks' = [tasks EXCEPT ![t].pc = "reading"]
    /\ UNCHANGED <<cacheVars, lock_log>>
    /\ LockFrame

\* MemoryCache::get under the read lock; the guard is dropped on return.
GetBody(t) ==
    /\ tasks[t].pc = "reading"
    /\ tasks' = [tasks EXCEPT ![t] =
           [@ EXCEPT !.pc = "done",
                     !.ret = Some(CacheLookup(tasks[t].key))]]
    /\ UNCHANGED <<cacheVars, lock_log>>
    /\ LockFrame

\* MemoryCache::set: `self.storage.write().await`
AcquireWrite(t) ==
    /\ tasks[t].pc = "waiting"
    /\ tasks[t].op = "set"
    /\ WriteLockFree(Readers, Writers)
    /\ lock_log' = Append(lock_log, [key |-> tasks[t].key,
                                     data |-> tasks[t].data, done |-> FALSE])
    /\ tasks' = [tasks EXCEPT ![t] =
           [@ EXCEPT !.pc = "writing", !.slot = Len(lock_log) + 1]]
    /\ UNCHANGED cacheVars
    /\ LockFrame

\* MemoryCache::set under the write lock; the guard is dropped on return.
SetBody(t) ==
    /\ tasks[t].pc = "writing"
    /\ LET me == tasks[t]
       IN  /\ storage' = HashMapInsert(storage, me.key,
                             CacheEntryNew(me.data, me.ttl, now))
           /\ last_set' = [last_set EXCEPT ![me.key] =
                  Some([data |-> me.data, ttl |-> me.ttl, at |-> now])]
           /\ lock_log' = [lock_log EXCEPT ![me.slot].done = TRUE]
           /\ tasks' = [tasks EXCEPT ![t].pc = "done"]
    /\ UNCHANGED <<now, last_get, last_sweep>>
    /\ LockFrame

-----------------------------------------------------------------------------
(* Option score *)

\* Contracts handed to calculate_option_score: last price (dollars) and
\* implied volatility (hundredths) as get_option_prices or the listing left
\* them, and the days from today to expiration_date.
ScoredContracts ==
    { [symbol |-> "OPT", last_price |-> last, implied_volatility |-> iv,
       days_to_expiry |-> days] :
        last \in {None, Some(0), Some(-1), Some(2), Some(5)},
        iv \in {None, Some(0), Some(35), Some(50)},
        days \in {30, 45, 400} }

\* Spot prices, in dollars.
OptionScoreSpots == {100, 200}

OptionScoreUnderlying == {-20, 30, 50}

\* An exact quotient num / den, den > 0.
Quotient(num, den) == [num |-> num, den |-> den]

\* calculate_option_score: base_score * delta * (spot_price / premium)
\* / (1.0 + 30.0 / 30.0), in units of 1e-4.
calculate_option_score(contract, spot_price, underlying_score) ==
    LET premium == UnwrapOr(contract.last_price, 0)
        delta == UnwrapOr(contract.implied_volatility, 0)
        base_score == underlying_score
    IN  IF premium <= 0 THEN Quotient(0, 1)
        ELSE Quotient(base_score * delta * spot_price,
                      premium * (1 + 30 \div 30))

OptionScoreCalled ==
    \E contract \in ScoredContracts, spot_price \in OptionScoreSpots,
       underlying_score \in OptionScoreUnderlying :
        Called("calculate_option_score",
               [contract |-> contract, spot_price |-> spot_price,
                underlying_score |-> underlying_score])

OptionScoreReturns ==
    Return("calculate_option_score",
           calculate_option_score(fn_call[1].args.contract,
                                  fn_call[1].args.spot_price,
                                  fn_call[1].args.underlying_score))

-----------------------------------------------------------------------------
(* Quote enrichment: the tail of fetch_contracts, and the score that follows *)

\* Values a field of the contracts listing can carry (dollars, hundredths
\* for the implied volatility).
ListedPrices == {None, Some(3)}

ListedVolatilities == {None, Some(35)}

\* The contract fetch_contracts has chosen, as the listing gave it.
ListedContracts ==
    { [symbol |-> "OPT_1", open_interest |-> Some(500), close_price |-> close,
       bid_price |-> bid, ask_price |-> ask, last_price |-> last,
       implied_volatility |-> iv] :
        close \in ListedPrices, bid \in ListedPrices, ask \in ListedPrices,
        last \in ListedPrices, iv \in ListedVolatilities }

\* Ways the quote request of get_option_prices fails before a body is read.
QuoteFailures ==
    {"no_credentials", "network_error", "status_429", "status_500",
     "invalid_json"}

\* What the quote provider answers: a failure, or a body whose close_price
\* is absent or a number (dollars).
QuoteAnswers ==
    { [kind |-> f, close_price |-> None] : f \in QuoteFailures }
    \cup
    { [kind |-> "body", close_price |-> c] :
        c \in {None, Some(0), Some(2), Some(5)} }

\* get_option_prices: Err for every failure and for a body without a
\* close price, else the OptionPrices built from the close price.
get_option_prices(answer) ==
    CASE answer.kind = "no_credentials" ->
             Err("ALPACA_API_KEY_ID/APCA_API_KEY_ID missing")
      [] answer.kind = "network_error" -> Err("Error fetching option prices")
      [] answer.kind = "status_429" ->
             Err("Rate limit hit for option prices")
      [] answer.kind = "status_500" -> Err("Error fetching option prices: 500")
      [] answer.kind = "invalid_json" ->
             Err("Error parsing option prices JSON")
      [] OTHER ->
             IF answer.close_price = None
             THEN Err("No close price found for option")
             ELSE Ok([ask_price |-> answer.close_price[1],
                      bid_price |-> answer.close_price[1],
                      last_price |-> answer.close_price[1],
                      implied_volatility |-> 0])

\* A failed quote request fails the window.
PropagateQuoteError(chosen, answer) ==
    LET prices == get_option_prices(answer)
    IN  IF prices.ok THEN Ok(Some(Enrich(chosen, prices.val.last_price)))
        ELSE Err(prices.err)

\* fetch_contracts from `match get_option_prices(&best_contract).await` on:
\* the merge on Ok, a line on stderr on Err, and Ok(Some(best_contract)).
fetch_contracts_quote(chosen, answer) ==
    LET prices == get_option_prices(answer)
    IN  Ok(Some(IF prices.ok
                THEN Enrich(chosen, prices.val.last_price)
                ELSE chosen))

QuoteCalled ==
    \E best \in ListedContracts, answer \in QuoteAnswers :
        Called("fetch_contracts", [best_contract |-> best, answer |-> answer])

QuoteReturns ==
    Return("fetch_contracts",
           fetch_contracts_quote(fn_call[1].args.best_contract,
                                 fn_call[1].args.answer))

\* analyze_ticker_options on a contract whose quote enrichment succeeded:
\* the contract and the option_score pushed into options_analysis.
EnrichedScoreCalled ==
    \E best \in ListedContracts, answer \in QuoteAnswers,
       spot_price \in OptionScoreSpots,
       underlying_score \in OptionScoreUnderlying :
        /\ get_option_prices(answer).ok
        /\ Called("analyze_ticker_options",
                  [best_contract |-> best, answer |-> answer,
                   spot_price |-> spot_price,
                   underlying_score |-> underlying_score])

EnrichedScoreReturns ==
    LET a == fn_call[1].args
        contract == fetch_contracts_quote(a.best_contract, a.answer).val[1]
    IN  Return("analyze_ticker_options",
               [contract |-> contract,
                option_score |->
                    calculate_option_score(contract, a.spot_price,
                                           a.underlying_score)])

-----------------------------------------------------------------------------
(* Ticker normalization before the contracts and quote requests *)

\* Longest underlying ticker.
MaxRootLen == 3

\* Tickers are sequences of letters.
TickerLetters == {"F", "B", "A"}

UnderlyingTickers == UNION {[1..n -> TickerLetters] : n \in 1..MaxRootLen}

LegacyTicker == <<"F", "B">>

CurrentTicker == <<"M", "E", "T", "A">>

\* What follows the underlying ticker in a contract symbol: expiration
\* date, type and strike, here one character each.
ContractSuffix == <<"5", "C", "1">>

\* The symbol of a contract of `ticker`.
ContractSymbolOf(ticker) == ticker \o ContractSuffix

\* fetch_contracts: `if ticker == "FB" { "META" } else { ticker }`
normalized_ticker(ticker) ==
    IF ticker = LegacyTicker THEN CurrentTicker ELSE ticker

\* str::replace("FB", "META"): every non-overlapping match, left to right.
RECURSIVE Replace(_)
Replace(symbol) ==
    IF Len(symbol) < 2 THEN symbol
    ELSE IF SubSeq(symbol, 1, 2) = LegacyTicker
         THEN CurrentTicker \o Replace(SubSeq(symbol, 3, Len(symbol)))
         ELSE <<Head(symbol)>> \o Replace(Tail(symbol))

\* str::contains("FB")
Contains(symbol) ==
    \E i \in 1..(Len(symbol) - 1) : SubSeq(symbol, i, i + 1) = LegacyTicker

\* get_option_prices: the symbol put into the quote URL.
normalized_symbol(symbol) ==
    IF Contains(symbol) THEN Replace(symbol) ELSE symbol

ContractsUrlCalled ==
    \E ticker \in UnderlyingTickers :
        Called("fetch_contracts_url", [ticker |-> ticker])

ContractsUrlReturns ==
    Return("fetch_contracts_url", normalized_ticker(fn_call[1].args.ticker))

QuoteUrlCalled ==
    \E ticker \in UnderlyingTickers :
        Called("get_option_prices_url",
               [ticker |-> ticker, symbol |-> ContractSymbolOf(ticker)])

QuoteUrlReturns ==
    Return("get_option_prices_url",
           normalized_symbol(fn_call[1].args.symbol))

-----------------------------------------------------------------------------
(* Undervalued indicators: one call *)

\* Quotes (cents) a contract can carry: absent, zero, negative, positive.
QuoteValues == {None, Some(0), Some(-10), Some(240), Some(250)}

\* Contracts handed to calculate_undervalued_indicators: as listed by
\* upstream, or enriched by get_option_prices.
QuotedContracts ==
    { [symbol |-> "OPT", open_interest |-> oi, bid_price |-> bid,
       ask_price |-> ask, last_price |-> last, implied_volatility |-> None] :
        oi \in {None, Some(50), Some(1500)},
        bid \in QuoteValues, ask \in QuoteValues,
        last \in {None, Some(0), Some(250)} }

IndicatorsCalled ==
    \E contract \in QuotedContracts, underlying_score \in Scores :
        Called("calculate_undervalued_indicators",
               [contract |-> contract, underlying_score |-> underlying_score])

IndicatorsReturn ==
    Return("calculate_undervalued_indicators",
           calculate_undervalued_indicators(fn_call[1].args.contract,
                                            fn_call[1].args.underlying_score))

-----------------------------------------------------------------------------
(* Returns and risk metrics *)

\* Longest price series and longest return series looked at.
MaxPrices == 3

MaxReturns == 3

\* Closing prices (cents); a zero close is possible in upstream data.
PriceValues == {0, 90, 100, 110}

PriceSeries == UNION {[1..n -> PriceValues] : n \in 0..MaxPrices}

\* The closure of compute_returns_from_prices on one window without its
\* guard against a zero price.
period_return_unguarded(w0, w1) == Quotient(w1 - w0, w0)

\* if w[0] != 0.0 { w[1] / w[0] - 1.0 } else { 0.0 }
period_return(w0, w1) ==
    IF w0 # 0 THEN Quotient(w1 - w0, w0) ELSE Quotient(0, 1)

\* compute_returns_from_prices
compute_returns_from_prices(prices) ==
    IF Len(prices) < 2 THEN <<>>
    ELSE [i \in 1..(Len(prices) - 1) |-> period_return(prices[i], prices[i + 1])]

ReturnsCalled ==
    \E prices \in PriceSeries :
        Called("compute_returns_from_prices", [prices |-> prices])

ReturnsReturn ==
    Return("compute_returns_from_prices",
           compute_returns_from_prices(fn_call[1].args.prices))

\* Per-period returns, in units of 1e-4.
ReturnValues == {-100, 0, 100}

ReturnSeries == UNION {[1..n -> ReturnValues] : n \in 0..MaxReturns}

\* risk_free_per_period(rf_annual, ppy) and
\* risk_free_per_period(target_return_annual, ppy), in units of 1e-4.
PerPeriodRates == {0, 1}

PeriodsPerYear == {252}

RECURSIVE SumSeq(_)
SumSeq(values) ==
    IF values = <<>> THEN 0 ELSE Head(values) + SumSeq(Tail(values))

\* mean
mean(values) ==
    IF values = <<>> THEN Quotient(0, 1)
    ELSE Quotient(SumSeq(values), Len(values))

\* stddev_sample, squared: sum of (v - m)^2 over n - 1, with m = sum / n.
stddev_sample_sq(values) ==
    LET n == Len(values)
        total == SumSeq(values)
    IN  IF n < 2 THEN Quotient(0, 1)
        ELSE Quotient(SumSeq([i \in 1..n |->
                                (n * values[i] - total) * (n * values[i] - total)]),
                      n * n * (n - 1))

\* downside_deviation, squared: sum of min(r - target, 0)^2 over n.
downside_deviation_sq(values, target_per_period) ==
    LET n == Len(values)
    IN  IF n = 0 THEN Quotient(0, 1)
        ELSE Quotient(SumSeq([i \in 1..n |->
                                Min(values[i] - target_per_period, 0)
                                * Min(values[i] - target_per_period, 0)]),
                      n)

\* On the grid of the inputs a deviation exceeds 1e-12 exactly when its
\* square is not 0.
Above1e12(deviation_sq) == deviation_sq.num > 0

Sign(x) == IF x > 0 THEN 1 ELSE IF x < 0 THEN -1 ELSE 0

\* A ratio kept by its sign and its exact square.
ZeroRatio == [sign |-> 0, sq |-> Quotient(0, 1)]

\* (mean_excess / deviation) * ppy.sqrt()
AnnualizedRatio(mean_excess, deviation_sq, ppy) ==
    [sign |-> Sign(mean_excess.num),
     sq |-> Quotient(mean_excess.num * mean_excess.num * deviation_sq.den * ppy,
                     mean_excess.den * mean_excess.den * deviation_sq.num)]

\* compute_metrics_from_returns: the fields that depend on the two
\* deviations.
compute_metrics_from_returns(returns, rf_p, target_p, ppy) ==
    LET n == Len(returns)
        vol_sq == stddev_sample_sq(returns)
        dd_sq == downside_deviation_sq(returns, target_p)
        excess == [i \in 1..n |-> returns[i] - rf_p]
        mean_excess == mean(excess)
    IN  [n_periods |-> n,
         mean_return |-> mean(returns),
         volatility_sq |-> vol_sq,
         downside_deviation_sq |-> dd_sq,
         sharpe |-> IF Above1e12(vol_sq)
                    THEN AnnualizedRatio(mean_excess, vol_sq, ppy)
                    ELSE ZeroRatio,
         sortino |-> IF Above1e12(dd_sq)
                     THEN AnnualizedRatio(mean_excess, dd_sq, ppy)
                     ELSE ZeroRatio]

MetricsCalled ==
    \E returns \in ReturnSeries, rf_p \in PerPeriodRates,
       target_p \in PerPeriodRates, ppy \in PeriodsPerYear :
        Called("compute_metrics_from_returns",
               [returns |-> returns, rf_p |-> rf_p, target_p |-> target_p,
                ppy |-> ppy])

MetricsReturn ==
    Return("compute_metrics_from_returns",
           compute_metrics_from_returns(fn_call[1].args.returns,
                                        fn_call[1].args.rf_p,
                                        fn_call[1].args.target_p,
                                        fn_call[1].args.ppy))

-----------------------------------------------------------------------------
(* Ticker discovery: get_trending_tickers *)

\* Longest list one source reports.
MaxSourceLen == 2

SourceSymbols == {"AAPL", "TSLA", "NVDA"}

\* A source's list; a source may name a symbol more than once.
SourceLists == UNION {[1..n -> SourceSymbols] : n \in 0..MaxSourceLen}

\* fetch_finviz_symbols and yahoo_trending return a Result,
\* get_reddit_trending_stocks a plain list.
SourceResults == {Err("source failed")} \cup {Ok(l) : l \in SourceLists}

\* all_tickers.extend(list) under `if let Ok(list)`.
ExtendIfOk(all_tickers, result) ==
    IF result.ok THEN all_tickers \o result.val ELSE all_tickers

\* De-duplication that keeps the last occurrence of a symbol.
RECURSIVE DedupKeepLast(_)
DedupKeepLast(tickers) ==
    IF tickers = <<>> THEN <<>>
    ELSE LET rest == Tail(tickers)
         IN  IF \E i \in 1..Len(rest) : rest[i] = Head(tickers)
             THEN DedupKeepLast(rest)
             ELSE <<Head(tickers)>> \o DedupKeepLast(rest)

\* all_tickers.retain(|s| seen.insert(s.clone())): an element stays when no
\* earlier element equals it.
RetainFirstSeen(tickers) ==
    SelectSeq([i \in 1..Len(tickers) |-> <<i, tickers[i]>>],
              LAMBDA e : \A j \in 1..(e[1] - 1) : tickers[j] # e[2])

DedupFirstSeen(tickers) ==
    LET kept == RetainFirstSeen(tickers)
    IN  [i \in 1..Len(kept) |-> kept[i][2]]

\* get_trending_tickers, given what the three sources answered.
get_trending_tickers(finviz, yahoo, reddit) ==
    DedupFirstSeen(ExtendIfOk(ExtendIfOk(<<>>, finviz), yahoo) \o reddit)

DiscoveryCalled ==
    \E finviz \in SourceResults, yahoo \in SourceResults,
       reddit \in SourceLists :
        Called("get_trending_tickers",
               [finviz |-> finviz, yahoo |-> yahoo, reddit |-> reddit])

DiscoveryReturns ==
    Return("get_trending_tickers",
           get_trending_tickers(fn_call[1].args.finviz, fn_call[1].args.yahoo,
                                fn_call[1].args.reddit))

-----------------------------------------------------------------------------
(* Response summary of get_trending_options_handler *)

\* Longest result list summarised.
MaxResults == 6

\* .take(5)
TopCount == 5

SummarySymbols == <<"AAPL", "TSLA", "NVDA", "AMD", "PLTR", "MSFT", "GOOG">>

\* What the selector found for a returned ticker: nothing, an enriched
\* short-term contract with a bare LEAP, or a bare LEAP alone.
SummaryHoiResults ==
    TrendingHoiResults
    \cup {[short_term |-> None, leap |-> Some(ThinContract), error |-> None]}

\* The record analyze_ticker_options builds for the i-th symbol.
SummaryRecord ==
    [i \in 1..Len(SummarySymbols), score \in Scores,
     hoi_result \in SummaryHoiResults |->
        analyze_ticker_options(SummarySymbols[i],
                               [composite_score |-> score,
                                spot_price |-> 10000],
                               hoi_result)[1]]

\* Composite scores of a result list of n records: in descending order.
RankedScores(n) ==
    {sc \in [1..n -> Scores] : \A i \in 1..(n - 1) : sc[i] >= sc[i + 1]}

\* The result list the handler holds at line 127: pairwise distinct symbols,
\* composite scores in descending order.
ResultList(n, scores, hois) ==
    [i \in 1..n |-> SummaryRecord[i, scores[i], hois[i]]]

\* Iterator::take(n)
Take(list, n) == SubSeq(list, 1, Min(n, Len(list)))

\* filter_map(overall_undervalued_score).max_by(partial_cmp) over a record's
\* options_analysis: None on an empty array.
MaxBy(options_analysis) ==
    IF options_analysis = <<>> THEN None
    ELSE Some(FoldMax(options_analysis[1].undervalued_indicators
                          .overall_undervalued_score,
                      options_analysis))

\* filter_map over the results: the x for which f(x) is Some, mapped.
FilterMap(list, f(_)) ==
    LET mapped == [i \in 1..Len(list) |-> f(list[i])]
        kept == SelectSeq(mapped, LAMBDA y : y # None)
    IN  [i \in 1..Len(kept) |-> kept[i][1]]

\* The pairs left in the order they were collected.
KeepOrder(pairs) == pairs

RECURSIVE InsertPairDesc(_, _)
InsertPairDesc(sorted, x) ==
    IF sorted = <<>> THEN <<x>>
    ELSE IF Head(sorted)[2] >= x[2]
         THEN <<Head(sorted)>> \o InsertPairDesc(Tail(sorted), x)
         ELSE <<x>> \o sorted

RECURSIVE SortPairsStable(_)
SortPairsStable(pairs) ==
    IF pairs = <<>> THEN <<>>
    ELSE InsertPairDesc(SortPairsStable(SubSeq(pairs, 1, Len(pairs) - 1)),
                        pairs[Len(pairs)])

\* sort_by(|a, b| b.1.partial_cmp(&a.1)...) on (symbol, score) pairs.
SortPairsDesc(pairs) == SortPairsStable(pairs)

\* The symbols of the first TopCount pairs.
TopSymbols(pairs) ==
    LET top == Take(SortPairsDesc(pairs), TopCount)
    IN  [i \in 1..Len(top) |-> top[i][1]]

\* sum / len, or 0.0 for no score.
Average(scores) ==
    IF scores = <<>> THEN Quotient(0, 1)
    ELSE Quotient(SumSeq(scores), Len(scores))

\* TrendingOptionsSummary of a result list.
Summary(results) ==
    LET WithOptions(rec) == rec.options_analysis # <<>>
        UnderlyingScore(rec) == Some(CompositeOf(rec))
        UndervaluedScore(rec) == MaxBy(rec.options_analysis)
        UnderlyingPair(rec) == Some(<<rec.symbol, CompositeOf(rec)>>)
        UndervaluedPair(rec) ==
            IF MaxBy(rec.options_analysis) = None THEN None
            ELSE Some(<<rec.symbol, MaxBy(rec.options_analysis)[1]>>)
    IN  [total_analyzed |-> Len(results),
         total_with_options |-> Len(SelectSeq(results, WithOptions)),
         average_underlying_score |->
             Average(FilterMap(results, UnderlyingScore)),
         average_undervalued_score |->
             Average(FilterMap(results, UndervaluedScore)),
         top_underlying_tickers |->
             TopSymbols(FilterMap(results, UnderlyingPair)),
         top_undervalued_tickers |->
             TopSymbols(FilterMap(results, UndervaluedPair))]

SummaryCalled ==
    \E n \in 0..MaxResults :
        \E scores \in RankedScores(n), hois \in [1..n -> SummaryHoiResults] :
            Called("summary", [results |-> ResultList(n, scores, hois)])

SummaryReturns == Return("summary", Summary(fn_call[1].args.results))

-----------------------------------------------------------------------------
(* Specifications *)

\* One GET /trending-options request.
InitTrending ==
    TrendingStart /\ HoiIdle /\ CacheIdle /\ PureIdle /\ ReadIdle /\ LockIdle

NextTrending ==
    \/ HandlerStart
    \/ Discover
    \/ \E i \in 1..Len(task) : FetchHistory(i)
    \/ \E i \in 1..Len(task) : FetchSpot(i)
    \/ \E i \in 1..Len(task) : SelectContracts(i)
    \/ JoinAndRespond

SpecTrending == InitTrending /\ [][NextTrending]_vars

\* One batched high-open-interest request, through the helper or the handler.
InitHoi ==
    TrendingIdle /\ HoiBatchStart /\ CacheIdle /\ PureIdle /\ ReadIdle /\ LockIdle

NextHoi ==
    \/ EnterBatch
    \/ ParseTickers
    \/ ListContracts(BatchListings)
    \/ QuotePrices
    \/ Sleep

SpecHoi == InitHoi /\ [][NextHoi]_vars

\* One selector call over every listing of at most MaxContracts elements.
InitSelect ==
    TrendingIdle /\ HoiSingleStart /\ CacheIdle /\ PureIdle /\ ReadIdle /\ LockIdle

NextSelect ==
    \/ ListContracts(AllListings)
    \/ QuotePrices

SpecSelect == InitSelect /\ [][NextSelect]_vars

\* The cache under any sequence of its operations and any passing of time.
InitCache ==
    TrendingIdle /\ HoiIdle /\ CacheNew /\ PureIdle /\ ReadIdle /\ LockIdle

NextCache ==
    \/ \E key \in CacheKeys : CacheGet(key)
    \/ \E key \in CacheKeys, data \in CacheValues, ttl \in Ttls :
          CacheSet(key, data, ttl)
    \/ CleanupExpired
    \/ CacheClear
    \/ Tick

SpecCache == InitCache /\ [][NextCache]_vars


\* Every component other than the pure function under study is idle.
OthersIdle == TrendingIdle /\ HoiIdle /\ CacheIdle /\ ReadIdle /\ LockIdle

\* One call of cache_key.
InitCacheKey == OthersIdle /\ CacheKeyCalled

NextCacheKey == CacheKeyReturns

SpecCacheKey == InitCacheKey /\ [][NextCacheKey]_vars


\* Concurrent fetch_prices_for_symbol_cached calls over one cache.
InitReadThrough ==
    TrendingIdle /\ HoiIdle /\ PureIdle /\ PriceCacheNew /\ ReadIdle /\ LockIdle

NextReadThrough ==
    \/ \E c \in Callers : EnterCached(c)
    \/ \E c \in Callers : GetCached(c)
    \/ \E c \in Callers : FetchUpstream(c)
    \/ \E c \in Callers : SetCached(c)
    \/ Elapse

SpecReadThrough == InitReadThrough /\ [][NextReadThrough]_vars

\* The running application, one request at a time: requests keep arriving,
\* the cache of AppState is reached through the read-through fetch only, a
\* request that can take a step takes one and the clock goes on.
NextApp ==
    \/ AppRequest(1)
    \/ GetCached(1)
    \/ FetchUpstream(1)
    \/ SetCached(1)
    \/ Elapse

SpecApp ==
    InitReadThrough /\ [][NextApp]_vars /\ WF_vars(NextApp) /\ WF_vars(Elapse)

\* Both read-through fetches on the cache of AppState: one task calls
\* fetch_prices_for_symbol_cached, the other OptimizedApiClient::get_cached.
NextReadThroughAll ==
    \/ EnterCached(1)
    \/ GetCached(1)
    \/ FetchUpstream(1)
    \/ SetCached(1)
    \/ ClientEnter(2)
    \/ ClientGet(2)
    \/ ClientFetch(2)
    \/ ClientSet(2)
    \/ Elapse

SpecReadThroughAll == InitReadThrough /\ [][NextReadThroughAll]_vars

\* Tasks calling get and set on one cache, interleaved at the lock.
InitLock ==
    TrendingIdle /\ HoiIdle /\ CacheNew /\ PureIdle /\ ReadIdle /\ LockIdle

NextLock ==
    \/ \E t \in Tasks : TaskCall(t)
    \/ \E t \in Tasks : AcquireRead(t)
    \/ \E t \in Tasks : GetBody(t)
    \/ \E t \in Tasks : AcquireWrite(t)
    \/ \E t \in Tasks : SetBody(t)
    \/ Tick

SpecLock == InitLock /\ [][NextLock]_vars


\* One call of calculate_option_score.
InitOptionScore == OthersIdle /\ OptionScoreCalled

NextOptionScore == OptionScoreReturns

SpecOptionScore == InitOptionScore /\ [][NextOptionScore]_vars


\* One call of calculate_undervalued_indicators.
InitIndicators == OthersIdle /\ IndicatorsCalled

NextIndicators == IndicatorsReturn

SpecIndicators == InitIndicators /\ [][NextIndicators]_vars


\* One call of compute_returns_from_prices.
InitReturns == OthersIdle /\ ReturnsCalled

NextReturns == ReturnsReturn

SpecReturns == InitReturns /\ [][NextReturns]_vars

\* One call of compute_metrics_from_returns.
InitMetrics == OthersIdle /\ MetricsCalled

NextMetrics == MetricsReturn

SpecMetrics == InitMetrics /\ [][NextMetrics]_vars


\* One call of get_trending_tickers.
InitDiscovery == OthersIdle /\ DiscoveryCalled

NextDiscovery == DiscoveryReturns

SpecDiscovery == InitDiscovery /\ [][NextDiscovery]_vars


\* The tail of fetch_contracts on every chosen contract and quote answer.
InitQuote == OthersIdle /\ QuoteCalled

NextQuote == QuoteReturns

SpecQuote == InitQuote /\ [][NextQuote]_vars

\* The scoring of a contract whose quote enrichment succeeded.
InitEnrichedScore == OthersIdle /\ EnrichedScoreCalled

NextEnrichedScore == EnrichedScoreReturns

SpecEnrichedScore == InitEnrichedScore /\ [][NextEnrichedScore]_vars

\* The identifiers put into the contracts URL and into the quote URL.
InitNormalize == OthersIdle /\ (ContractsUrlCalled \/ QuoteUrlCalled)

NextNormalize == ContractsUrlReturns \/ QuoteUrlReturns

SpecNormalize == InitNormalize /\ [][NextNormalize]_vars

\* The summary get_trending_options_handler computes over its results.
InitSummary == OthersIdle /\ SummaryCalled

NextSummary == SummaryReturns

SpecSummary == InitSummary /\ [][NextSummary]_vars

-----------------------------------------------------------------------------
(* Claims about the trending aggregation pipeline *)

\* Tickers whose future returned a record.
Contributors == {i \in 1..Len(task) : task[i].pc = "done" /\ task[i].out # None}

RecordOf(i) == task[i].out[1]

\* j's record ranks ahead of i's: higher composite score, or the same score
\* and discovered earlier.
RanksAhead(j, i) ==
    \/ CompositeOf(RecordOf(j)) > CompositeOf(RecordOf(i))
    \/ CompositeOf(RecordOf(j)) = CompositeOf(RecordOf(i)) /\ j < i

RankOf(i) == 1 + Cardinality({j \in Contributors : RanksAhead(j, i)})

CompletedBefore(j, i) ==
    \E a, b \in 1..Len(completed) :
        a < b /\ completed[a] = j /\ completed[b] = i

\* C1: ranking determinism.  The list returned by
\* get_trending_options_analysis is fixed by the discovered tickers and the
\* per-ticker outcomes alone: the record of ticker i stands at the position
\* given by its composite score, ties in discovery order, whatever the order
\* in which the futures completed.
C1_RankingDeterminism ==
    hpc = "done" =>
        /\ Len(analysis) = Min(analysis_limit, Cardinality(Contributors))
        /\ \A i \in Contributors :
              RankOf(i) <= analysis_limit => analysis[RankOf(i)] = RecordOf(i)

\* Two records with equal scores whose futures completed against the
\* discovery order, both returned in discovery order.
C1_Witness ==
    /\ hpc = "done"
    /\ \E i, j \in Contributors :
          /\ i < j
          /\ CompositeOf(RecordOf(i)) = CompositeOf(RecordOf(j))
          /\ CompletedBefore(j, i)
          /\ RankOf(j) <= Len(analysis)
          /\ analysis[RankOf(i)] = RecordOf(i)
          /\ analysis[RankOf(j)] = RecordOf(j)

\* What upstream answered for ticker i makes it eligible: a price series of
\* at least 10 prices and a spot price.
Eligible(i) ==
    /\ task[i].prices # None
    /\ task[i].prices[1] >= 10
    /\ task[i].spot_ok

\* C2: failure isolation.  A ticker whose future has returned contributes a
\* record exactly when its price history has at least 10 prices and its spot
\* price was fetched; the record is its own; the collected results hold the
\* records of the eligible tickers and nothing else (no error entries), and
\* once every future has returned the request can answer.
C2_FailureIsolation ==
    /\ \A i \in 1..Len(task) :
          task[i].pc = "done" =>
              /\ (task[i].out # None) <=> Eligible(i)
              /\ task[i].out # None =>
                    RecordOf(i).symbol = trending_tickers[i]
    /\ hpc = "done" =>
          /\ Len(collected) = Cardinality(Contributors)
          /\ \A i \in Contributors :
                \E k \in 1..Len(collected) : collected[k] = RecordOf(i)
    /\ (hpc = "fanout" /\ \A i \in 1..Len(task) : task[i].pc = "done")
          => ENABLED JoinAndRespond

\* One ticker failed on its price history, one had too few prices or no spot
\* price, and the third alone is in the collected results.
C2_Witness ==
    /\ hpc = "done"
    /\ Len(task) = 3
    /\ \E i, j, k \in 1..Len(task) :
          /\ task[i].prices = None
          /\ task[j].prices # None /\ ~task[j].spot_ok
          /\ task[k].out # None
          /\ collected = <<RecordOf(k)>>

\* The records the claim C3 promises: the first `limit` passing records, in
\* rank order, among all collected records.
FirstPassing(limit) ==
    LET passing == SelectSeq(SortStable(collected),
                             LAMBDA rec : PassesFilter(rec, query))
    IN  SubSeq(passing, 1, Min(limit, Len(passing)))

\* C3: filter then limit.  The handler's results are the first `limit`
\* records, in rank order, among all analysed records that pass both
\* thresholds.  Stated for the limits whose double fits the machine word;
\* the code violates it there already, by cutting the ranking to 2 * limit
\* records before it filters.
C3_FilterThenLimit ==
    (hpc = "done" /\ query.limit * 2 <= UsizeMax)
        => response = FirstPassing(query.limit)

SortedDescending(s) ==
    \A a, b \in 1..Len(s) : a < b => CompositeOf(s[a]) >= CompositeOf(s[b])

\* C4: rank order.  In the list returned by get_trending_options_analysis
\* and in the handler's results every record's composite score is at least
\* that of every record after it.
C4_RankOrder == SortedDescending(analysis) /\ SortedDescending(response)

\* The sort had to reorder: the results differ from the collected order and
\* hold records of different scores.
C4_Witness ==
    /\ hpc = "done"
    /\ Len(response) >= 2
    /\ CompositeOf(response[1]) > CompositeOf(response[Len(response)])
    /\ ~SortedDescending(collected)

-----------------------------------------------------------------------------
(* Claims about the high-open-interest contract selector *)

LastEntry == hoi_results[Len(hoi_results)]

\* The selector has returned for the ticker of the last entry and its two
\* window results are still at hand.
CallReturned == leap_result # None /\ hoi_results # <<>>

WindowPcs == {"short_listing", "short_quote", "leap_listing", "leap_quote"}

\* C5: a batch over n tickers returns exactly n entries, the i-th carrying
\* the i-th ticker, whatever fails: while ticker hoi_idx is being processed
\* every earlier ticker has its entry, and the answer holds one entry per
\* ticker in input order.  For the handler the tickers are the trimmed,
\* non-empty segments of the query parameter.
C5_BatchOrder ==
    /\ \A i \in 1..Len(hoi_results) :
          i <= Len(hoi_tickers) /\ hoi_results[i].ticker = hoi_tickers[i]
    /\ hoi_pc \in WindowPcs => Len(hoi_results) = hoi_idx - 1
    /\ hoi_pc = "sleep" => Len(hoi_results) = hoi_idx
    /\ hoi_pc = "done" =>
          /\ Len(hoi_results) = Len(hoi_tickers)
          /\ hoi_response = Some(Ok(hoi_results))
    /\ (hoi_entry = "batch_handler" /\ hoi_pc # "parse") =>
          /\ \A i \in 1..Len(hoi_tickers) : hoi_tickers[i] # ""
          /\ Len(hoi_tickers) =
                Cardinality({k \in 1..Len(raw_tickers) :
                                Trim(raw_tickers[k]) # ""})

\* The handler answered for two tickers: the first failed in both windows,
\* the second carries a contract.
C5_Witness ==
    /\ hoi_entry = "batch_handler"
    /\ hoi_pc = "done"
    /\ Len(hoi_results) = 2
    /\ hoi_results[1].ticker = "BAD_TICKER"
    /\ hoi_results[1].result.short_term = None
    /\ hoi_results[1].result.leap = None
    /\ hoi_results[2].ticker = "AAPL"
    /\ hoi_results[2].result.short_term # None

\* The failures the claim C6 names: invalid ticker, network error, upstream
\* status error.
QueryFailed(result) ==
    /\ ~result.ok
    /\ result.err[1] \in {"Invalid ticker symbol",
                          "Network error fetching contracts for",
                          "Rate limit hit for",
                          "Error fetching contracts for"}

\* C6: error annotation.  A ticker whose contract queries fail yields a
\* result whose error field carries a message; a ticker whose queries both
\* succeed carries no error.
C6_ErrorAnnotation ==
    CallReturned =>
        /\ (QueryFailed(short_term_result[1]) /\ QueryFailed(leap_result[1]))
              => LastEntry.result.error # None
        /\ (short_term_result[1].ok /\ leap_result[1].ok)
              => LastEntry.result.error = None

\* The slot a window's outcome calls for: the contract of a listing that
\* succeeded and was not empty, absent otherwise.
SlotFor(result) == IF result.ok /\ result.val # None THEN result.val ELSE None

\* C7: window isolation.  The selector always returns a result for the
\* ticker it was called with; the short-term slot is fixed by the outcome of
\* the short-term query alone and the LEAP slot by that of the LEAP query
\* alone, a failed or empty window giving an absent slot.
C7_WindowIsolation ==
    /\ hoi_pc = "sleep" => CallReturned
    /\ (hoi_pc = "done" /\ hoi_tickers # <<>>) => CallReturned
    /\ CallReturned =>
          /\ LastEntry.ticker = hoi_tickers[Len(hoi_results)]
          /\ LastEntry.result.short_term = SlotFor(short_term_result[1])
          /\ LastEntry.result.leap = SlotFor(leap_result[1])

\* The short-term query failed and the LEAP slot is filled all the same.
C7_Witness ==
    /\ CallReturned
    /\ ~short_term_result[1].ok
    /\ LastEntry.result.short_term = None
    /\ LastEntry.result.leap # None

\* The contract fetch_contracts has chosen or returned for the listing in
\* parsed_contracts, if any.
ChosenNow ==
    IF best_contract # None THEN best_contract
    ELSE IF hoi_pc = "leap_listing" /\ short_term_result[1].ok
         THEN short_term_result[1].val
    ELSE IF hoi_pc = "done" /\ leap_result[1].ok THEN leap_result[1].val
    ELSE None

OpenInterestOrZero(contract) ==
    IF contract.open_interest = None THEN 0 ELSE contract.open_interest[1]

\* C8: highest open interest.  The contract chosen from a non-empty parsed
\* listing is one of its contracts and its open interest (missing counted as
\* 0) is at least that of every contract of the listing, in whatever order
\* the listing came.
C8_HighestOpenInterest ==
    /\ (hoi_pc \in {"short_quote", "leap_quote"}) => best_contract # None
    /\ ChosenNow # None =>
          /\ \E k \in 1..Len(parsed_contracts) :
                /\ parsed_contracts[k].symbol = ChosenNow[1].symbol
                /\ parsed_contracts[k].open_interest = ChosenNow[1].open_interest
          /\ \A k \in 1..Len(parsed_contracts) :
                OpenInterestOrZero(ChosenNow[1])
                    >= OpenInterestOrZero(parsed_contracts[k])

\* The listing with open interest 10, 500, 50: the second contract is
\* returned.
C8_Witness ==
    /\ hoi_pc = "leap_listing"
    /\ Len(parsed_contracts) = 3
    /\ parsed_contracts[1].open_interest = Some(10)
    /\ parsed_contracts[2].open_interest = Some(500)
    /\ parsed_contracts[3].open_interest = Some(50)
    /\ short_term_result[1].ok
    /\ short_term_result[1].val # None
    /\ short_term_result[1].val[1].symbol = ContractSymbols[2]

-----------------------------------------------------------------------------
(* Claims about the time-bounded cache *)

\* C9: cache round-trip.  A get(key) made before the ttl of the latest
\* set(key, value, ttl) has elapsed, with no clear in between, returns
\* exactly the value set.
C9_RoundTrip ==
    last_get # None =>
        LET g == last_get[1]
            s == last_set[g.key]
        IN  (s # None /\ g.at < s[1].at + s[1].ttl)
                => g.result = Some(s[1].data)

\* A get at a later instant than the set, still inside the ttl, returned
\* the value.
C9_Witness ==
    /\ last_get # None
    /\ last_set[last_get[1].key] # None
    /\ last_get[1].at > last_set[last_get[1].key][1].at
    /\ last_get[1].at < last_set[last_get[1].key][1].at
                        + last_set[last_get[1].key][1].ttl
    /\ last_get[1].result = Some(last_set[last_get[1].key][1].data)

\* C10 as stated: expiry.  Once the ttl of the latest set has elapsed (the
\* clock has reached set time + ttl), get(key) returns a miss, whether or
\* not a sweep has removed the entry.  is_expired compares with a strict >,
\* so a get at the very instant of expiry still returns the value.
C10_ExpiryAtTtl ==
    last_get # None =>
        LET g == last_get[1]
            s == last_set[g.key]
        IN  (s # None /\ g.at >= s[1].at + s[1].ttl) => g.result = None

\* C10 as the code has it: expiry.  A get(key) made after the expiry instant
\* of the latest set (Instant::now() > set time + ttl) returns a miss,
\* whether or not a sweep has removed the entry; so does a get of a key
\* never set.
C10_Expiry ==
    last_get # None =>
        LET g == last_get[1]
            s == last_set[g.key]
        IN  /\ s = None => g.result = None
            /\ (s # None /\ g.at > s[1].at + s[1].ttl) => g.result = None

\* A miss on an entry that is expired and still in storage.
C10_Witness ==
    /\ last_get # None
    /\ last_get[1].result = None
    /\ storage[last_get[1].key] # None
    /\ last_set[last_get[1].key] # None
    /\ last_get[1].at > last_set[last_get[1].key][1].at
                        + last_set[last_get[1].key][1].ttl

-----------------------------------------------------------------------------
(* Claims about the pure functions *)

\* The call of `fn` has returned.
Returned(fn) == fn_call # None /\ fn_call[1].fn = fn /\ fn_ret # None

KeyArgs == fn_call[1].args

\* Where the text of parameter i starts in the key, less one.
RECURSIVE KeyOffset(_)
KeyOffset(i) ==
    IF i = 1 THEN Len(KeyArgs.prefix)
    ELSE KeyOffset(i - 1) + 2 + Len(KeyArgs.params[i - 1][1])
                              + Len(KeyArgs.params[i - 1][2])

\* The parameter lists that hold the same parameters in another order.
Reorderings(params) ==
    {q \in {[i \in 1..Len(params) |-> params[f[i]]] :
               f \in Permutations(1..Len(params))} : q # params}

SeparatorFree(str) == \A i \in 1..Len(str) : str[i] \notin {":", "="}

\* The key is the prefix followed, for each parameter in the caller's order,
\* by ':' name '=' value.
KeyHasFormat ==
    LET key == fn_ret[1]
        params == KeyArgs.params
        n == Len(params)
    IN  /\ Len(key) = KeyOffset(n + 1)
        /\ SubSeq(key, 1, Len(KeyArgs.prefix)) = KeyArgs.prefix
        /\ \A i \in 1..n :
              LET off == KeyOffset(i)
                  name == params[i][1]
                  value == params[i][2]
              IN  /\ key[off + 1] = ":"
                  /\ SubSeq(key, off + 2, off + 1 + Len(name)) = name
                  /\ key[off + 2 + Len(name)] = "="
                  /\ SubSeq(key, off + 3 + Len(name), KeyOffset(i + 1)) = value

\* C11 as stated: cache key format.  The key is the prefix followed, for each
\* parameter in the caller's order, by ':' name '=' value, and the same
\* parameters in a different order always give a different key.
C11_KeyOrderAlwaysMatters ==
    Returned("cache_key") =>
        /\ KeyHasFormat
        /\ \A q \in Reorderings(KeyArgs.params) :
              cache_key(KeyArgs.prefix, q) # fn_ret[1]

\* C11 as the code has it: cache key format.  The key is the prefix
\* followed, for each parameter in the caller's order, by ':' name '='
\* value; equal inputs give equal keys; the same parameters in a different
\* order give a different key whenever no name or value contains one of the
\* separators ':' and '='.
C11_KeyFormat ==
    Returned("cache_key") =>
        /\ KeyHasFormat
        /\ fn_ret[1] = cache_key(KeyArgs.prefix, KeyArgs.params)
        /\ (\A i \in 1..Len(KeyArgs.params) :
               SeparatorFree(KeyArgs.params[i][1])
               /\ SeparatorFree(KeyArgs.params[i][2]))
           => \A q \in Reorderings(KeyArgs.params) :
                 cache_key(KeyArgs.prefix, q) # fn_ret[1]

\* Two parameters given with the later name first: the key keeps that order.
C11_Witness ==
    /\ Returned("cache_key")
    /\ KeyArgs.params = << <<(<<"b">>), (<<"a">>)>>, <<(<<"a">>), (<<"a", "a">>)>> >>
    /\ fn_ret[1] = <<"p", ":", "b", "=", "a", ":", "a", "=", "a", "a">>

-----------------------------------------------------------------------------
(* Claims about the read-through price fetch *)

\* The TTL a lookback window of `days` days calls for: 5 minutes up to 3
\* months, 15 minutes from 6 months to 1 year, 30 minutes beyond.
WindowTtl(days) ==
    IF days <= 90 THEN 5 * 60
    ELSE IF days <= 365 THEN 15 * 60
    ELSE 30 * 60

\* C12: TTL by lookback window.  For every range label, the series
\* fetch_prices_for_symbol_cached stores carries the TTL fixed by the label's
\* lookback window: 5 minutes for a window of at most 3 months (unrecognized
\* labels included, whose window is the 30-day default), 15 minutes for 6
\* months to 1 year, 30 minutes for longer windows.
C12_TtlByWindow ==
    \A symbol \in PriceSymbols, range_label \in RangeLabels :
        LET key == PriceKey(symbol, range_label)
        IN  last_set[key] # None =>
               /\ last_set[key][1].ttl = WindowTtl(lookback_days(range_label))
               /\ storage[key] # None
               /\ storage[key][1].expires_at
                     = last_set[key][1].at
                       + WindowTtl(lookback_days(range_label))

-----------------------------------------------------------------------------
(* Claims about the option scorer *)

\* C13: option score.  calculate_option_score returns 0 when the contract's
\* last price is missing or not positive, and otherwise
\* underlying score x implied volatility x (spot / premium)
\* / (1 + days_to_expiry / 30), days_to_expiry being the contract's own days
\* to expiration.
C13_OptionScore ==
    Returned("calculate_option_score") =>
        LET a == fn_call[1].args
            premium == IF a.contract.last_price = None THEN 0
                       ELSE a.contract.last_price[1]
            iv == IF a.contract.implied_volatility = None THEN 0
                  ELSE a.contract.implied_volatility[1]
            score == fn_ret[1]
        IN  IF premium <= 0 THEN score.num = 0
            ELSE score.num * premium * (30 + a.contract.days_to_expiry)
                 = a.underlying_score * iv * a.spot_price * 30 * score.den

\* A quote that is missing or not positive.
Unusable(quote) == quote = None \/ quote[1] <= 0

\* C14: spread score with unusable quotes.  Whenever the contract's bid or
\* ask is missing or not positive, spread_pct is +infinity, so spread_score
\* is the lowest bucket 0.1 and is_tight_spread is false.
C14_UnusableQuotes ==
    Returned("calculate_undervalued_indicators") =>
        LET contract == fn_call[1].args.contract
            indicators == fn_ret[1]
        IN  (Unusable(contract.bid_price) \/ Unusable(contract.ask_price)) =>
                /\ indicators.spread_is_infinite
                /\ indicators.spread_score = 1
                /\ ~indicators.is_tight_spread

-----------------------------------------------------------------------------
(* Claims about returns and risk metrics *)

\* C15: for every return series whose volatility is approximately 0 (series
\* with fewer than 2 returns and constant series included),
\* compute_metrics_from_returns gives Sharpe exactly 0 and Sortino exactly 0.
C15_ZeroVolatility ==
    Returned("compute_metrics_from_returns") =>
        LET returns == fn_call[1].args.returns
            flat == \/ Len(returns) < 2
                    \/ \A i \in 1..Len(returns) : returns[i] = returns[1]
        IN  flat => /\ fn_ret[1].sharpe.sign = 0
                    /\ fn_ret[1].sharpe.sq.num = 0
                    /\ fn_ret[1].sortino.sign = 0
                    /\ fn_ret[1].sortino.sq.num = 0

\* C16: compute_returns_from_prices returns the empty series for fewer than
\* 2 prices and otherwise exactly len(prices) - 1 returns, the i-th being
\* p[i+1] / p[i] - 1, or 0 when p[i] = 0.
C16_Returns ==
    Returned("compute_returns_from_prices") =>
        LET p == fn_call[1].args.prices
            r == fn_ret[1]
        IN  IF Len(p) < 2 THEN r = <<>>
            ELSE /\ Len(r) = Len(p) - 1
                 /\ \A i \in 1..Len(r) :
                       IF p[i] = 0 THEN r[i].num = 0 /\ r[i].den # 0
                       ELSE /\ r[i].den # 0
                            /\ r[i].num * p[i] = (p[i + 1] - p[i]) * r[i].den

\* Three prices, the first of them zero: a zero return, then a real one.
C16_Witness ==
    /\ Returned("compute_returns_from_prices")
    /\ fn_call[1].args.prices = <<0, 100, 110>>
    /\ Len(fn_ret[1]) = 2
    /\ fn_ret[1][1].num = 0
    /\ fn_ret[1][2] = Quotient(10, 100)

-----------------------------------------------------------------------------
(* Claims about ticker discovery and the response summary *)

\* The concatenation of the lists of the sources that answered.
Reported ==
    LET a == fn_call[1].args
    IN  (IF a.finviz.ok THEN a.finviz.val ELSE <<>>)
        \o (IF a.yahoo.ok THEN a.yahoo.val ELSE <<>>)
        \o a.reddit

FirstIndex(list, x) ==
    CHOOSE i \in 1..Len(list) :
        list[i] = x /\ \A j \in 1..(i - 1) : list[j] # x

\* C17: discovery.  get_trending_tickers returns every symbol reported by
\* any source exactly once, ordered by first occurrence in the concatenation
\* of the sources' lists; a source that fails or returns nothing contributes
\* no symbol and does not keep the other sources' symbols from being
\* returned.
C17_Discovery ==
    Returned("get_trending_tickers") =>
        LET out == fn_ret[1]
        IN  /\ {out[i] : i \in 1..Len(out)}
                  = {Reported[i] : i \in 1..Len(Reported)}
            /\ \A i, j \in 1..Len(out) : i # j => out[i] # out[j]
            /\ \A i, j \in 1..Len(out) :
                  i < j => FirstIndex(Reported, out[i])
                           < FirstIndex(Reported, out[j])

\* finviz failed; yahoo and reddit overlap on one symbol, which keeps the
\* place yahoo gave it.
C17_Witness ==
    /\ Returned("get_trending_tickers")
    /\ ~fn_call[1].args.finviz.ok
    /\ fn_call[1].args.yahoo = Ok(<<"TSLA", "AAPL">>)
    /\ fn_call[1].args.reddit = <<"AAPL", "NVDA">>
    /\ fn_ret[1] = <<"TSLA", "AAPL", "NVDA">>

\* The returned record carrying `symbol`.
ResultOf(symbol) ==
    LET results == fn_call[1].args.results
    IN  results[CHOOSE i \in 1..Len(results) : results[i].symbol = symbol]

\* A record's best undervalued score; it has one when it has a contract.
BestUndervalued(rec) ==
    CHOOSE x \in {rec.options_analysis[k].undervalued_indicators
                     .overall_undervalued_score :
                  k \in 1..Len(rec.options_analysis)} :
        \A k \in 1..Len(rec.options_analysis) :
            x >= rec.options_analysis[k].undervalued_indicators
                    .overall_undervalued_score

\* `top` holds at most 5 symbols, each of a returned record admitted by
\* `Has`, no symbol twice, in descending order of `ScoreOf`.
IsTopList(top, Has(_), ScoreOf(_)) ==
    LET results == fn_call[1].args.results
    IN  /\ Len(top) <= 5
        /\ \A i \in 1..Len(top) :
              /\ \E k \in 1..Len(results) : results[k].symbol = top[i]
              /\ Has(ResultOf(top[i]))
        /\ \A i, j \in 1..Len(top) : i # j => top[i] # top[j]
        /\ \A i, j \in 1..Len(top) :
              i < j => ScoreOf(ResultOf(top[i])) >= ScoreOf(ResultOf(top[j]))

\* C18: summary over the returned set.  total_analyzed is the number of
\* returned results, total_with_options the number of returned results with
\* at least one scored contract (so at most total_analyzed), and each of
\* the two top lists holds at most 5 symbols, all of returned results, in
\* descending order of the respective score.
C18_Summary ==
    Returned("summary") =>
        LET results == fn_call[1].args.results
            summary == fn_ret[1]
            AnyRecord(rec) == TRUE
            Scored(rec) == rec.options_analysis # <<>>
            Underlying(rec) == rec.underlying_metrics.composite_score
        IN  /\ summary.total_analyzed = Len(results)
            /\ summary.total_with_options
                  = Cardinality({k \in 1..Len(results) : Scored(results[k])})
            /\ summary.total_with_options <= summary.total_analyzed
            /\ IsTopList(summary.top_underlying_tickers, AnyRecord, Underlying)
            /\ IsTopList(summary.top_undervalued_tickers, Scored,
                         BestUndervalued)

\* Six results returned: the underlying list is cut to 5, and the
\* undervalued list does not follow the order of the results.
C18_Witness ==
    /\ Returned("summary")
    /\ fn_ret[1].total_analyzed = 6
    /\ fn_ret[1].total_with_options = 4
    /\ Len(fn_ret[1].top_underlying_tickers) = 5
    /\ Len(fn_ret[1].top_undervalued_tickers) = 4
    /\ fn_ret[1].top_undervalued_tickers[1] = "PLTR"
    /\ fn_ret[1].top_undervalued_tickers[2] = "AAPL"

\* The caller's cache.get found nothing it could return: no set of its key
\* came before, or the latest one had expired.
ObservedMiss(me) ==
    /\ me.get_at # None
    /\ \/ me.seen = None
       \/ me.get_at[1] > me.seen[1].at + me.seen[1].ttl

\* The call has gone through its upstream fetch and its cache.set.
Wrote(me) == me.pc = "done" /\ me.set_seq # None

\* C19: no single-flight.  Two concurrent calls for the same (symbol, range)
\* that both observe a miss each perform their own upstream fetch; both
\* write under the same key, and once both have completed the cache holds
\* the entry of that key with the value of the later write.
C19_NoSingleFlight ==
    /\ \A c \in Callers :
          (ObservedMiss(callers[c]) /\ callers[c].pc = "done")
              => callers[c].fetched
    /\ \A c, d \in Callers :
          (/\ c # d
           /\ callers[c].cache_key = callers[d].cache_key
           /\ ObservedMiss(callers[c]) /\ ObservedMiss(callers[d])
           /\ Wrote(callers[c]) /\ Wrote(callers[d])
           /\ callers[c].set_seq[1] < callers[d].set_seq[1])
          => /\ callers[c].fetched /\ callers[d].fetched
             /\ storage[callers[d].cache_key] # None
             /\ storage[callers[d].cache_key][1].data = callers[d].prices[1]

\* Both callers read the key before either wrote it, upstream gave them
\* different series, and the cache holds the series written last.
C19_Witness ==
    \E c, d \in Callers :
        /\ c # d
        /\ callers[c].cache_key = callers[d].cache_key
        /\ callers[c].seen = None /\ callers[d].seen = None
        /\ Wrote(callers[c]) /\ Wrote(callers[d])
        /\ callers[c].set_seq[1] < callers[d].set_seq[1]
        /\ callers[c].prices # callers[d].prices
        /\ storage[callers[d].cache_key][1].data = callers[d].prices[1]

\* C20: read-through hit.  After a call for (symbol, range) has stored its
\* series, a later call with the same pair whose read comes before the
\* entry's TTL has elapsed returns that series without an upstream fetch,
\* and a call whose read comes after the TTL has elapsed goes upstream
\* again.
C20_ReadThroughHit ==
    \A c \in Callers :
        LET me == callers[c]
        IN  (me.get_at # None /\ me.seen # None) =>
               /\ me.get_at[1] < me.seen[1].at + me.seen[1].ttl
                     => /\ me.pc = "done"
                        /\ me.ret = Some(Ok(me.seen[1].data))
                        /\ ~me.fetched
               /\ me.get_at[1] > me.seen[1].at + me.seen[1].ttl
                     => me.pc \in {"fetch", "set"} \/ me.fetched

\* A call made at a later instant than the write, inside the TTL, returned
\* the stored series without going upstream.
C20_Witness ==
    \E c \in Callers :
        /\ callers[c].pc = "done"
        /\ callers[c].seen # None
        /\ callers[c].get_at[1] > callers[c].seen[1].at
        /\ callers[c].get_at[1] < callers[c].seen[1].at + callers[c].seen[1].ttl
        /\ ~callers[c].fetched
        /\ callers[c].ret = Some(Ok(callers[c].seen[1].data))

-----------------------------------------------------------------------------
(* Claims about concurrent cache access *)

\* The sets for key k, by their position in the order of the write lock.
SetsOf(k) == {i \in 1..Len(lock_log) : lock_log[i].key = k}

LastSetOf(k) == CHOOSE i \in SetsOf(k) : \A j \in SetsOf(k) : j <= i

\* Task t leaves set: its insert happens in this step.
SetReturns(t) == tasks[t].pc = "writing" /\ tasks'[t].pc = "done"

\* C21: concurrent cache access.  set(k, v, ttl) replaces only key k's
\* entry (value and expiry) and leaves every other key's entry unchanged;
\* under any interleaving of concurrent sets and gets a get(k) returns a
\* miss or a value that some set wrote for k; and once all sets have
\* completed, the stored value for k is that of the last set to take the
\* write lock.
C21_ConcurrentAccess ==
    /\ [][\A t \in Tasks :
            SetReturns(t) =>
               /\ storage'[tasks[t].key] =
                      Some([data |-> tasks[t].data,
                            expires_at |-> now + tasks[t].ttl])
               /\ \A k \in CacheKeys \ {tasks[t].key} :
                      storage'[k] = storage[k]]_vars
    /\ [](\A t \in Tasks :
            (tasks[t].pc = "done" /\ tasks[t].op = "get") =>
               \/ tasks[t].ret = Some(None)
               \/ \E i \in SetsOf(tasks[t].key) :
                     /\ lock_log[i].done
                     /\ tasks[t].ret = Some(Some(lock_log[i].data)))
    /\ []((\A i \in 1..Len(lock_log) : lock_log[i].done) =>
            \A k \in CacheKeys :
               SetsOf(k) # {} =>
                  /\ storage[k] # None
                  /\ storage[k][1].data = lock_log[LastSetOf(k)].data)

\* Two sets wrote different values under one key; a get that ran between
\* them returned the first value, and the cache holds the second.
C21_Witness ==
    /\ Len(lock_log) = 2
    /\ lock_log[1].key = lock_log[2].key
    /\ lock_log[1].data # lock_log[2].data
    /\ lock_log[1].done /\ lock_log[2].done
    /\ storage[lock_log[2].key][1].data = lock_log[2].data
    /\ \E t \in Tasks :
          /\ tasks[t].pc = "done" /\ tasks[t].op = "get"
          /\ tasks[t].key = lock_log[1].key
          /\ tasks[t].ret = Some(Some(lock_log[1].data))

-----------------------------------------------------------------------------
(* Claims about the pruning of the cache *)

\* The get that has just returned found its key's entry expired.
FoundExpired ==
    /\ last_get # None
    /\ last_set[last_get[1].key] # None
    /\ last_get[1].at > last_set[last_get[1].key][1].at
                        + last_set[last_get[1].key][1].ttl

\* C22: lazy removal on read.  A get(key) that finds the entry expired
\* removes that entry from storage, so after the read the cache's size no
\* longer counts it.
C22_LazyRemoval ==
    FoundExpired =>
        /\ storage[last_get[1].key] = None
        /\ CacheSize =
              Cardinality({k \in CacheKeys \ {last_get[1].key} :
                              storage[k] # None})

\* The entry of key k has outlived its TTL and is still stored.
Stale(k) == storage[k] # None /\ is_expired(storage[k][1], now)

\* C23: bounded lifetime.  In the running application every cache entry is
\* eventually removed from storage after its TTL has elapsed, even if its
\* key is never read or written again.
C23_BoundedLifetime == \A k \in PriceKeys : Stale(k) ~> (storage[k] = None)

\* C24: sweep effect.  cleanup_expired removes every entry that is expired
\* at the time of the call and leaves every unexpired entry (key, value and
\* expiry) unchanged; calling it twice in a row without time passing
\* changes nothing the second time.
C24_SweepEffect ==
    /\ [](last_sweep # None =>
            \A k \in CacheKeys :
               LET old == last_sweep[1].before[k]
               IN  IF old # None /\ last_sweep[1].at > old[1].expires_at
                   THEN storage[k] = None
                   ELSE storage[k] = old)
    /\ [][(last_sweep # None /\ last_sweep' # None) => storage' = storage]_vars

\* A sweep has just removed one key's expired entry and kept another key's
\* unexpired one.
C24_Witness ==
    /\ last_sweep # None
    /\ \E k1, k2 \in CacheKeys :
          /\ last_sweep[1].before[k1] # None
          /\ storage[k1] = None
          /\ storage[k2] # None
          /\ storage[k2] = last_sweep[1].before[k2]

-----------------------------------------------------------------------------
(* Claims about quote enrichment *)

\* C25: enrichment failure is swallowed.  If the quote request for the
\* chosen contract fails, fetch_contracts still returns that same contract
\* with every field equal to its value in the contracts listing, and the
\* window's outcome is a success, not an error.
C25_EnrichmentFailureSwallowed ==
    (Returned("fetch_contracts")
       /\ (fn_call[1].args.answer.kind # "body"
           \/ fn_call[1].args.answer.close_price = None))
    => fn_ret[1] = [ok |-> TRUE, val |-> <<fn_call[1].args.best_contract>>]

\* A rate-limited quote request on a contract whose listing carries prices
\* and an implied volatility: the contract comes back as listed.
C25_Witness ==
    /\ Returned("fetch_contracts")
    /\ fn_call[1].args.answer.kind = "status_429"
    /\ fn_call[1].args.best_contract.last_price = Some(3)
    /\ fn_call[1].args.best_contract.implied_volatility = Some(35)
    /\ fn_ret[1].ok
    /\ fn_ret[1].val = Some(fn_call[1].args.best_contract)

-----------------------------------------------------------------------------
(* Claims about the batch entry points and the identifiers they send *)

\* The step after which the upstream queries of the next ticker start.
NextTickerStarts == hoi_idx >= 1 /\ hoi_idx' = hoi_idx + 1

\* C26: sequential batch with delay.  In every batched entry point (the
\* batch helper and the HTTP batch handler) the tickers are processed one
\* at a time, and the upstream queries for ticker i+1 start only after
\* ticker i's result has been recorded and a fixed delay has elapsed.
C26_SequentialWithDelay ==
    [][(hoi_entry \in {"batch_helper", "batch_handler"} /\ NextTickerStarts)
          => /\ hoi_pc = "sleep"
             /\ Len(hoi_results) = hoi_idx
             /\ hoi_results[hoi_idx].ticker = hoi_tickers[hoi_idx]]_vars

\* C27: ticker normalization rewrites only the renamed legacy ticker (FB
\* becomes META) before querying: for every other underlying ticker, and
\* for every contract symbol that does not belong to the legacy ticker, the
\* identifier sent to the contracts and quote providers equals the input
\* identifier.
C27_OnlyLegacyRewritten ==
    /\ Returned("fetch_contracts_url") =>
          /\ fn_call[1].args.ticker = LegacyTicker
                => fn_ret[1] = CurrentTicker
          /\ fn_call[1].args.ticker # LegacyTicker
                => fn_ret[1] = fn_call[1].args.ticker
    /\ Returned("get_option_prices_url") =>
          /\ fn_call[1].args.ticker = LegacyTicker
                => fn_ret[1] = CurrentTicker \o ContractSuffix
          /\ fn_call[1].args.ticker # LegacyTicker
                => fn_ret[1] = fn_call[1].args.symbol

-----------------------------------------------------------------------------
(* Claims about errors and the cache *)

\* The upstream answer of a call is a failure: the fetch failed, the status
\* was not a success, or the body does not deserialize into the type asked.
FailedUpstream(me) ==
    /\ me.answer # None
    /\ IF me.via = "yahoo" THEN ~me.answer[1].ok
       ELSE \/ me.answer[1].kind # "body"
            \/ /\ me.de = "naturals"
               /\ \E i \in 1..Len(me.answer[1].body) :
                     me.answer[1].body[i] < 0

\* The step is one of caller c's, and not its cache.set.
StepBeforeSet(c) ==
    /\ callers'[c] # callers[c]
    /\ callers[c].pc \notin {"set", "c_set"}

\* C28: errors are never cached.  When the upstream fetch fails, returns a
\* non-success status, or its body cannot be deserialized,
\* fetch_prices_for_symbol_cached and OptimizedApiClient::get_cached return
\* the error and leave the cache as it was: the call adds, replaces and
\* removes no entry.
C28_ErrorsNotCached ==
    /\ [](\A c \in Callers :
            (callers[c].pc = "done" /\ FailedUpstream(callers[c])) =>
               /\ ~callers[c].ret[1].ok
               /\ callers[c].set_seq = None)
    /\ [](\A c \in Callers : callers[c].pc \in {"set", "c_set"} =>
             ~FailedUpstream(callers[c]))
    /\ [][\A c \in Callers :
             StepBeforeSet(c) => storage' = storage /\ last_set' = last_set]_vars

\* Both functions have returned an error, the HTTP client for a body that
\* does not deserialize, and the cache holds nothing.
C28_Witness ==
    /\ callers[1].pc = "done" /\ callers[1].via = "yahoo"
    /\ FailedUpstream(callers[1])
    /\ callers[2].pc = "done" /\ callers[2].via = "client"
    /\ callers[2].answer # None
    /\ callers[2].answer[1].kind = "body"
    /\ FailedUpstream(callers[2])
    /\ \A k \in PriceKeys : storage[k] = None

-----------------------------------------------------------------------------
(* Claims about the steps of one ticker's task *)

\* The moves of a task's position: history, then spot, then the selector,
\* and out at any of them.
TaskMoves ==
    {<<"history", "spot">>, <<"spot", "options">>, <<"options", "done">>,
     <<"history", "done">>, <<"spot", "done">>}

\* The price history came back with enough data.
HistoryOk(t) == t.prices # None /\ t.prices[1] >= 10

\* C29: per-ticker step order in the trending pipeline.  Within one
\* ticker's task the steps run strictly in the order price-history fetch,
\* spot-price fetch, contract selector; the selector's requests are issued
\* only after both underlying fetches have succeeded, so a ticker that
\* fails underlying analysis causes no contract or quote request.
C29_StepOrder ==
    /\ [][\A i \in DOMAIN task \cap DOMAIN task' :
             task'[i].pc # task[i].pc
                => <<task[i].pc, task'[i].pc>> \in TaskMoves]_vars
    /\ [](\A i \in DOMAIN task :
             /\ task[i].pc = "spot" => HistoryOk(task[i])
             /\ task[i].pc = "options" =>
                   HistoryOk(task[i]) /\ task[i].spot_ok
             /\ (task[i].pc = "done" /\ task[i].out # None) =>
                   HistoryOk(task[i]) /\ task[i].spot_ok
             /\ (task[i].pc = "done"
                   /\ ~(HistoryOk(task[i]) /\ task[i].spot_ok)) =>
                   task[i].out = None)
    /\ [][\A i \in DOMAIN task \cap DOMAIN task' :
             (task[i].out = None /\ task'[i].out # None)
                => task[i].pc = "options"]_vars

\* One ticker stands at the selector with both fetches behind it while
\* another has left after a failed spot fetch, without a selector result.
C29_Witness ==
    \E i, j \in DOMAIN task :
        /\ task[i].pc = "options"
        /\ HistoryOk(task[i]) /\ task[i].spot_ok
        /\ task[j].pc = "done"
        /\ HistoryOk(task[j]) /\ ~task[j].spot_ok
        /\ task[j].out = None

-----------------------------------------------------------------------------
(* Claims about the score of an enriched contract *)

\* C30: every contract whose quote enrichment succeeded is returned with
\* implied_volatility set to 0, overwriting any value from the listing,
\* and therefore its option_score in the trending pipeline is exactly 0
\* for every underlying composite score, spot price and premium.
C30_EnrichedScoreIsZero ==
    Returned("analyze_ticker_options") =>
        /\ fn_ret[1].contract.implied_volatility = Some(0)
        /\ fn_ret[1].contract.last_price = fn_call[1].args.answer.close_price
        /\ fn_ret[1].option_score.num = 0
        /\ fn_ret[1].option_score.den # 0

\* A contract listed with an implied volatility of 0.35, enriched with a
\* close price of 5 and scored for a positive underlying score.
C30_Witness ==
    /\ Returned("analyze_ticker_options")
    /\ fn_call[1].args.best_contract.implied_volatility = Some(35)
    /\ fn_call[1].args.answer.close_price = Some(5)
    /\ fn_call[1].args.underlying_score > 0
    /\ fn_ret[1].contract.last_price = Some(5)
    /\ fn_ret[1].contract.implied_volatility = Some(0)
    /\ fn_ret[1].option_score.num = 0

=============================================================================
